---------------------------- MODULE Spec2Model ----------------------------
(***************************************************************************)
(* State-machine model of the ML scoring service of pms-platform:          *)
(*   apps/ml-service/src/api/main.py            lazy accessors, endpoints  *)
(*   apps/ml-service/src/models/performance_benchmarker.py                 *)
(*   apps/ml-service/src/models/anomaly_detector.py                        *)
(*   apps/ml-service/src/models/productivity_predictor.py                  *)
(*   apps/ml-service/src/models/engagement_scorer.py                       *)
(*   apps/ml-service/src/models/sentiment_analyzer.py                      *)
(*                                                                         *)
(* Numbers.  Metric values are integers; every statistic a benchmark       *)
(* stores is kept multiplied by 100, which makes numpy's linear            *)
(* percentile interpolation exact.  A quotient the code computes is kept   *)
(* as an exact fraction [num, den] with den > 0; a division by zero is the *)
(* value ZeroDivisionError, with den = 0.                                  *)
(*                                                                         *)
(* Text.  A Python str is a sequence of one-character strings, so that     *)
(* f-string formatting and "_".join are modelled by concatenation.         *)
(***************************************************************************)
EXTENDS Integers, Sequences, FiniteSets, TLC

VARIABLES
    benchmarks,   \* PerformanceBenchmarker.benchmarks: key text -> benchmark
    createdFor,   \* history: (metric, segment) -> benchmark of its latest successful create_benchmark
    result,       \* the outcome of the last completed call
    surfaced,     \* history: the failures that reached a caller so far
    pred,         \* the ProductivityPredictor instance
    det,          \* the AnomalyDetector instance
    globals,      \* main.py module globals _sentiment_analyzer .. _performance_benchmarker
    env,          \* the components whose *_MODEL_PATH names an existing file
    ctorCalls,    \* history: constructor runs per component
    loadCalls,    \* history: load_model runs per component
    req,          \* the request threads running a get_* accessor
    fitter,       \* the thread running AnomalyDetector.fit
    readers,      \* the threads running AnomalyDetector.detect
    scorer        \* the EngagementScorer instance

vars == <<benchmarks, createdFor, result, surfaced, pred, det,
          globals, env, ctorCalls, loadCalls, req, fitter, readers, scorer>>

benchVars == <<benchmarks, createdFor>>
initVars == <<globals, env, ctorCalls, loadCalls, req>>
fitVars == <<fitter, readers>>

-----------------------------------------------------------------------------
(* Bounds of the model *)

MaxRows == 11      \* rows of level 3 in a historical dataset: MinSamples-1 .. MaxRows
MaxMissing == 1    \* of these, rows whose metric value is missing (NaN)
MaxBatch == 2      \* rows of a batch_compare table
MaxStat == 3       \* metric values of the percentile-rank datasets: 0 .. MaxStat
NumRequests == 2   \* concurrent first-use requests
NumReaders == 2    \* detect calls overlapping a fit
MaxFits == 2       \* fit calls on one detector
MaxKeys == 3       \* keys of a metrics dict given to detect
MaxEngKeys == 2    \* keys of a metrics dict given to calculate_score
MaxWords == 2      \* words of a text given to analyze
MaxTexts == 2      \* texts of a list given to batch_analyze
MaxFactorKeys == 2 \* keys of a features dict given to predict

-----------------------------------------------------------------------------
(* Python values *)

None == "None"
\* the quotient of a division by zero: no fraction has den = 0
ZeroDivisionError == [num |-> 0, den |-> 0]

Max(a, b) == IF a >= b THEN a ELSE b
Min(a, b) == IF a <= b THEN a ELSE b

\* an exception as the caller sees it: its class and its message
Raise(class, msg) == [ok |-> FALSE, class |-> class, msg |-> msg]

Range(s) == {s[i] : i \in DOMAIN s}

RECURSIVE Insert(_, _)
Insert(x, s) ==
    IF s = <<>> THEN <<x>>
    ELSE IF x <= Head(s) THEN <<x>> \o s
    ELSE <<Head(s)>> \o Insert(x, Tail(s))

\* sorted copy of a sequence of numbers (np.percentile sorts its input)
RECURSIVE SortNums(_)
SortNums(s) == IF s = <<>> THEN <<>> ELSE Insert(Head(s), SortNums(Tail(s)))

RECURSIVE SumSeq(_)
SumSeq(s) == IF s = <<>> THEN 0 ELSE Head(s) + SumSeq(Tail(s))

-----------------------------------------------------------------------------
(* Text *)

\* code points of the characters the model uses
Ord(c) ==
    CASE c = "3" -> 51  [] c = "4" -> 52  [] c = ":" -> 58  [] c = "X" -> 88
      [] c = "_" -> 95  [] c = "l" -> 108 [] c = "s" -> 115 [] c = "z" -> 122

\* Python's str < str
RECURSIVE TextLess(_, _)
TextLess(a, b) ==
    IF b = <<>> THEN FALSE
    ELSE IF a = <<>> THEN TRUE
    ELSE IF Head(a) # Head(b) THEN Ord(Head(a)) < Ord(Head(b))
    ELSE TextLess(Tail(a), Tail(b))

\* a segment value is a typed Python value; str() drops the type
IntVal(t) == [ty |-> "int", txt |-> t]
StrVal(t) == [ty |-> "str", txt |-> t]
Str(v) == v.txt

\* "sep".join(parts)
RECURSIVE Join(_, _)
Join(sep, parts) ==
    IF parts = <<>> THEN <<>>
    ELSE IF Len(parts) = 1 THEN Head(parts)
    ELSE Head(parts) \o sep \o Join(sep, Tail(parts))

-----------------------------------------------------------------------------
(* PerformanceBenchmarker: inputs *)

MetricScore == <<"s">>           \* the metric column of the datasets
KeyLvl == <<"l">>                \* a segment column of the datasets
KeyZone == <<"z">>               \* a segment key that is no column of the datasets
DataColumns == {MetricScore, KeyLvl}
MinSamples == 10

Lvl3 == IntVal(<<"3">>)
Lvl4 == IntVal(<<"4">>)
ZoneX == StrVal(<<"X">>)

\* A DataFrame row: user_id, the level, and the metric value (has = FALSE: NaN)
Row(i, lvl, has, val) == [user_id |-> i, lvl |-> lvl, has |-> has, val |-> val]

\* the cell of a row in a segment column
Cell(row, key) == row.lvl

\* Historical dataset: n3 rows of level 3, the first `miss` of them without a
\* metric value, followed by OtherRows rows of level 4.  Values are unsorted
\* and repeat.
OtherRows == 2
MkData(n3, miss) ==
    [i \in 1..(n3 + OtherRows) |->
        Row(i, IF i <= n3 THEN Lvl3 ELSE Lvl4, i > miss, (i * 7) % 5)]

\* segment_by dictionaries, as the sequence of their items in insertion order
\* (None and {} are both falsy: the empty sequence)
Segments ==
    { <<>>,
      << <<KeyLvl, Lvl3>> >>,
      << <<KeyLvl, StrVal(<<"3">>)>> >>,
      << <<KeyZone, ZoneX>>, <<KeyLvl, Lvl3>> >>,
      << <<KeyLvl, Lvl3>>, <<KeyZone, ZoneX>> >> }

\* a dict as a value: its set of items
SegItems(segment_by) == Range(segment_by)

-----------------------------------------------------------------------------
(* PerformanceBenchmarker *)

\* sorted(segment_by.items()): keys are unique, so items order by key
RECURSIVE InsertItem(_, _)
InsertItem(x, s) ==
    IF s = <<>> THEN <<x>>
    ELSE IF ~TextLess(Head(s)[1], x[1]) THEN <<x>> \o s
    ELSE <<Head(s)>> \o InsertItem(x, Tail(s))

RECURSIVE SortedItems(_)
SortedItems(s) == IF s = <<>> THEN <<>> ELSE InsertItem(Head(s), SortedItems(Tail(s)))

get_benchmark_key(metric_name, segment_by) ==
    IF segment_by = <<>> THEN metric_name
    ELSE LET items == SortedItems(segment_by)
             parts == [i \in 1..Len(items) |-> items[i][1] \o <<":">> \o Str(items[i][2])]
         IN  metric_name \o <<"_">> \o Join(<<"_">>, parts)

\* np.percentile(values, q), linear interpolation, times 100
Percentile(sorted, q) ==
    LET pos == q * (Len(sorted) - 1)
        lo == pos \div 100
        frac == pos % 100
        hi == IF frac = 0 THEN lo ELSE lo + 1
    IN  100 * sorted[lo + 1] + frac * (sorted[hi + 1] - sorted[lo + 1])

\* rows of data matching every segment pair whose key is a column
SegmentRows(data, segment_by) ==
    SelectSeq(data, LAMBDA row :
        \A i \in DOMAIN segment_by :
            segment_by[i][1] \in DataColumns => Cell(row, segment_by[i][1]) = segment_by[i][2])

\* segmented_data[metric_name].dropna()
MetricValues(rows) ==
    LET kept == SelectSeq(rows, LAMBDA row : row.has)
    IN  [i \in 1..Len(kept) |-> kept[i].val]

\* the statistics create_benchmark computes, with sample_size counting the
\* rows of the segment instead of its non-missing values
BenchmarkOf_CountsRows(metric_name, segment_by, segmented_data, metric_values) ==
    LET sorted == SortNums(metric_values)
    IN  [metric_name |-> metric_name,
         segment |-> SegItems(segment_by),
         sample_size |-> Len(segmented_data),
         percentile_25 |-> Percentile(sorted, 25),
         percentile_50 |-> Percentile(sorted, 50),
         percentile_75 |-> Percentile(sorted, 75),
         percentile_90 |-> Percentile(sorted, 90),
         mean |-> [num |-> 100 * SumSeq(metric_values), den |-> Len(metric_values)],
         min_value |-> 100 * sorted[1],
         max_value |-> 100 * sorted[Len(sorted)],
         data_points |-> Len(segmented_data)]

\* the statistics create_benchmark computes (standard_deviation, a square
\* root, is not kept)
BenchmarkOf(metric_name, segment_by, segmented_data, metric_values) ==
    LET sorted == SortNums(metric_values)
    IN  [metric_name |-> metric_name,
         segment |-> SegItems(segment_by),
         sample_size |-> Len(metric_values),
         percentile_25 |-> Percentile(sorted, 25),
         percentile_50 |-> Percentile(sorted, 50),
         percentile_75 |-> Percentile(sorted, 75),
         percentile_90 |-> Percentile(sorted, 90),
         mean |-> [num |-> 100 * SumSeq(metric_values), den |-> Len(metric_values)],
         min_value |-> 100 * sorted[1],
         max_value |-> 100 * sorted[Len(sorted)],
         data_points |-> Len(segmented_data)]

\* what create_benchmark returns or raises; the benchmark it stores on success
create_benchmark(data, metric_name, segment_by) ==
    LET segmented_data == SegmentRows(data, segment_by)
        metric_values == MetricValues(segmented_data)
    IN  IF Len(segmented_data) = 0
        THEN Raise("ValueError", "No data available for specified segment")
        ELSE IF metric_name \notin DataColumns
        THEN Raise("KeyError", "metric_name")
        ELSE IF Len(metric_values) < MinSamples
        THEN Raise("ValueError", "Insufficient data points")
        ELSE [ok |-> TRUE,
              value |-> BenchmarkOf(metric_name, segment_by, segmented_data, metric_values)]

\* self.benchmarks[benchmark_key] = benchmark
StoreBenchmark(store, key, benchmark) ==
    [k \in DOMAIN store \cup {key} |-> IF k = key THEN benchmark ELSE store[k]]

\* an exact quotient n / d
Frac(n, d) ==
    IF d = 0 THEN ZeroDivisionError
    ELSE IF d < 0 THEN [num |-> -n, den |-> -d]
    ELSE [num |-> n, den |-> d]

\* the fraction r compared with the integer k
FracGeq(r, k) == r.num >= k * r.den
FracLt(r, k) == r.num < k * r.den
FracLeq(r1, r2) == r1.num * r2.den <= r2.num * r1.den

\* round(x, 2) of a fraction, in hundredths (ties to even)
Round2(r) ==
    LET q == (100 * r.num) \div r.den
        rem == (100 * r.num) % r.den
    IN  IF 2 * rem > r.den THEN q + 1
        ELSE IF 2 * rem = r.den THEN q + (q % 2)
        ELSE q

\* calculate_percentile_rank without the test against min_value
calculate_percentile_rank_NoMinTest(value, benchmark) ==
    IF value <= benchmark.percentile_25
    THEN Frac(25 * (value - benchmark.min_value),
              benchmark.percentile_25 - benchmark.min_value)
    ELSE IF value <= benchmark.percentile_50
    THEN LET d == benchmark.percentile_50 - benchmark.percentile_25
         IN  Frac(25 * d + 25 * (value - benchmark.percentile_25), d)
    ELSE IF value <= benchmark.percentile_75
    THEN LET d == benchmark.percentile_75 - benchmark.percentile_50
         IN  Frac(50 * d + 25 * (value - benchmark.percentile_50), d)
    ELSE IF value <= benchmark.percentile_90
    THEN LET d == benchmark.percentile_90 - benchmark.percentile_75
         IN  Frac(75 * d + 15 * (value - benchmark.percentile_75), d)
    ELSE IF value >= benchmark.max_value
         THEN Frac(100, 1)
         ELSE LET d == benchmark.max_value - benchmark.percentile_90
              IN  Frac(90 * d + 10 * (value - benchmark.percentile_90), d)

\* calculate_percentile_rank with the p75..p90 piece spanning 25 ranks
calculate_percentile_rank_Span25(value, benchmark) ==
    IF value <= benchmark.percentile_25
    THEN IF value <= benchmark.min_value
         THEN Frac(0, 1)
         ELSE Frac(25 * (value - benchmark.min_value),
                   benchmark.percentile_25 - benchmark.min_value)
    ELSE IF value <= benchmark.percentile_50
    THEN LET d == benchmark.percentile_50 - benchmark.percentile_25
         IN  Frac(25 * d + 25 * (value - benchmark.percentile_25), d)
    ELSE IF value <= benchmark.percentile_75
    THEN LET d == benchmark.percentile_75 - benchmark.percentile_50
         IN  Frac(50 * d + 25 * (value - benchmark.percentile_50), d)
    ELSE IF value <= benchmark.percentile_90
    THEN LET d == benchmark.percentile_90 - benchmark.percentile_75
         IN  Frac(75 * d + 25 * (value - benchmark.percentile_75), d)
    ELSE IF value >= benchmark.max_value
         THEN Frac(100, 1)
         ELSE LET d == benchmark.max_value - benchmark.percentile_90
              IN  Frac(90 * d + 10 * (value - benchmark.percentile_90), d)

calculate_percentile_rank(value, benchmark) ==
    IF value <= benchmark.percentile_25
    THEN IF value <= benchmark.min_value
         THEN Frac(0, 1)
         ELSE Frac(25 * (value - benchmark.min_value),
                   benchmark.percentile_25 - benchmark.min_value)
    ELSE IF value <= benchmark.percentile_50
    THEN LET d == benchmark.percentile_50 - benchmark.percentile_25
         IN  Frac(25 * d + 25 * (value - benchmark.percentile_25), d)
    ELSE IF value <= benchmark.percentile_75
    THEN LET d == benchmark.percentile_75 - benchmark.percentile_50
         IN  Frac(50 * d + 25 * (value - benchmark.percentile_50), d)
    ELSE IF value <= benchmark.percentile_90
    THEN LET d == benchmark.percentile_90 - benchmark.percentile_75
         IN  Frac(75 * d + 15 * (value - benchmark.percentile_75), d)
    ELSE IF value >= benchmark.max_value
         THEN Frac(100, 1)
         ELSE LET d == benchmark.max_value - benchmark.percentile_90
              IN  Frac(90 * d + 10 * (value - benchmark.percentile_90), d)

classify_performance_level(percentile_rank) ==
    IF FracGeq(percentile_rank, 90) THEN "EXCEPTIONAL"
    ELSE IF FracGeq(percentile_rank, 75) THEN "ABOVE"
    ELSE IF FracGeq(percentile_rank, 25) THEN "AT"
    ELSE "BELOW"

get_relative_position(percentile_rank) ==
    IF FracGeq(percentile_rank, 90) THEN "TOP_10"
    ELSE IF FracGeq(percentile_rank, 75) THEN "TOP_25"
    ELSE IF FracGeq(percentile_rank, 25) THEN "MIDDLE_50"
    ELSE IF FracGeq(percentile_rank, 10) THEN "BOTTOM_25"
    ELSE "BOTTOM_10"

\* what compare_to_benchmark returns or raises (user_value is times 100, as
\* the stored statistics are; these are multiples of 0.01, which round(x, 2)
\* leaves alone)
compare_to_benchmark(store, user_value, metric_name, segment_by) ==
    LET benchmark_key == get_benchmark_key(metric_name, segment_by) IN
    IF benchmark_key \notin DOMAIN store
    THEN Raise("ValueError", "Benchmark not found")
    ELSE LET benchmark == store[benchmark_key]
             percentile_rank == calculate_percentile_rank(user_value, benchmark)
         IN  IF percentile_rank.den = 0
             THEN Raise("ZeroDivisionError", "float division by zero")
             ELSE [ok |-> TRUE,
                   value |->
                     [user_value |-> user_value,
                      benchmark_value |-> benchmark.percentile_50,
                      percentile_rank |-> Round2(percentile_rank),
                      performance_level |-> classify_performance_level(percentile_rank),
                      relative_position |-> get_relative_position(percentile_rank),
                      benchmark_stats |->
                        [mean |-> benchmark.mean,
                         median |-> benchmark.percentile_50,
                         p75 |-> benchmark.percentile_75,
                         p90 |-> benchmark.percentile_90]]]

\* segment_by_column = None
NoColumn == <<>>

\* the loop of batch_compare over the rows from position i on, results so far
\* in acc: a ValueError of the comparison skips the row, any other exception
\* leaves the loop
RECURSIVE BatchLoop(_, _, _, _, _, _)
BatchLoop(store, users_data, metric_name, segment_by_column, i, acc) ==
    IF i > Len(users_data) THEN [ok |-> TRUE, value |-> acc]
    ELSE
      LET row == users_data[i]
          user_value == 100 * row.val
          segment == IF segment_by_column # NoColumn /\ segment_by_column \in DataColumns
                     THEN << <<segment_by_column, Cell(row, segment_by_column)>> >>
                     ELSE <<>>
          comparison == compare_to_benchmark(store, user_value, metric_name, segment)
      IN  IF comparison.ok
          THEN BatchLoop(store, users_data, metric_name, segment_by_column, i + 1,
                  Append(acc, [user_id |-> row.user_id,
                               user_value |-> comparison.value.user_value,
                               percentile_rank |-> comparison.value.percentile_rank,
                               performance_level |-> comparison.value.performance_level,
                               relative_position |-> comparison.value.relative_position]))
          ELSE IF comparison.class = "ValueError"
          THEN BatchLoop(store, users_data, metric_name, segment_by_column, i + 1, acc)
          ELSE comparison

\* batch_compare without the except clause: the first missing benchmark ends
\* the batch
RECURSIVE BatchLoop_NoExcept(_, _, _, _, _, _)
BatchLoop_NoExcept(store, users_data, metric_name, segment_by_column, i, acc) ==
    IF i > Len(users_data) THEN [ok |-> TRUE, value |-> acc]
    ELSE
      LET row == users_data[i]
          user_value == 100 * row.val
          segment == IF segment_by_column # NoColumn /\ segment_by_column \in DataColumns
                     THEN << <<segment_by_column, Cell(row, segment_by_column)>> >>
                     ELSE <<>>
          comparison == compare_to_benchmark(store, user_value, metric_name, segment)
      IN  IF comparison.ok
          THEN BatchLoop_NoExcept(store, users_data, metric_name, segment_by_column, i + 1,
                  Append(acc, [user_id |-> row.user_id,
                               user_value |-> comparison.value.user_value,
                               percentile_rank |-> comparison.value.percentile_rank,
                               performance_level |-> comparison.value.performance_level,
                               relative_position |-> comparison.value.relative_position]))
          ELSE comparison

batch_compare_NoExcept(store, users_data, metric_name, segment_by_column) ==
    IF Len(users_data) > 0 /\ metric_name \notin DataColumns
    THEN Raise("KeyError", "metric_name")
    ELSE BatchLoop_NoExcept(store, users_data, metric_name, segment_by_column, 1, <<>>)

batch_compare(store, users_data, metric_name, segment_by_column) ==
    IF Len(users_data) > 0 /\ metric_name \notin DataColumns
    THEN Raise("KeyError", "metric_name")
    ELSE BatchLoop(store, users_data, metric_name, segment_by_column, 1, <<>>)

-----------------------------------------------------------------------------
(* PerformanceBenchmarker: the calls as actions *)

NoResult == [op |-> "none"]

CreateBenchmark(data, metric_name, segment_by) ==
    LET out == create_benchmark(data, metric_name, segment_by)
        key == get_benchmark_key(metric_name, segment_by)
        pair == <<metric_name, SegItems(segment_by)>>
    IN  /\ benchmarks' = IF out.ok THEN StoreBenchmark(benchmarks, key, out.value)
                         ELSE benchmarks
        /\ createdFor' = IF out.ok THEN StoreBenchmark(createdFor, pair, out.value)
                         ELSE createdFor
        /\ result' = [op |-> "create_benchmark", data |-> data,
                      metric_name |-> metric_name, segment_by |-> segment_by, out |-> out]

CompareToBenchmark(user_value, metric_name, segment_by) ==
    /\ result' = [op |-> "compare_to_benchmark", user_value |-> user_value,
                  metric_name |-> metric_name, segment_by |-> segment_by,
                  out |-> compare_to_benchmark(benchmarks, user_value, metric_name, segment_by)]
    /\ UNCHANGED benchVars

BatchCompare(users_data, metric_name, segment_by_column) ==
    /\ result' = [op |-> "batch_compare", users_data |-> users_data,
                  metric_name |-> metric_name, segment_by_column |-> segment_by_column,
                  out |-> batch_compare(benchmarks, users_data, metric_name, segment_by_column)]
    /\ UNCHANGED benchVars

\* get_benchmark: the stored benchmark, or None
get_benchmark(store, metric_name, segment_by) ==
    LET benchmark_key == get_benchmark_key(metric_name, segment_by) IN
    IF benchmark_key \in DOMAIN store
    THEN [ok |-> TRUE, value |-> store[benchmark_key]]
    ELSE [ok |-> TRUE, value |-> None]

\* get_all_benchmarks: the stored benchmarks (their order in the list left out)
get_all_benchmarks(store) ==
    [ok |-> TRUE, value |-> {store[k] : k \in DOMAIN store}]

GetBenchmark(metric_name, segment_by) ==
    /\ result' = [op |-> "get_benchmark", metric_name |-> metric_name,
                  segment_by |-> segment_by,
                  out |-> get_benchmark(benchmarks, metric_name, segment_by)]
    /\ UNCHANGED benchVars

GetAllBenchmarks ==
    /\ result' = [op |-> "get_all_benchmarks", out |-> get_all_benchmarks(benchmarks)]
    /\ UNCHANGED benchVars

-----------------------------------------------------------------------------
(* Initial states of the parts *)

InitBench == benchmarks = <<>> /\ createdFor = <<>>
InitResult == result = NoResult /\ surfaced = {}
InitPred == pred = None
InitDet == det = None
InitGlobals ==
    globals = <<>> /\ env = {} /\ ctorCalls = <<>> /\ loadCalls = <<>> /\ req = <<>>
InitFit == fitter = None /\ readers = <<>>
InitScorer == scorer = None

-----------------------------------------------------------------------------
(* SpecRank: compare_to_benchmark against one stored benchmark *)

\* min <= p25 <= p50 <= p75 <= p90 <= max over the metric values 0..MaxStat
OrderedStats == {t \in [1..6 -> 0..MaxStat] : \A i \in 1..5 : t[i] <= t[i + 1]}

\* A dataset of 2 * MinSamples + 1 rows, in descending order, whose minimum,
\* 25th, 50th, 75th, 90th percentile and maximum are t[1] .. t[6]
RankRows == 2 * MinSamples + 1
RankData(t) ==
    [i \in 1..RankRows |->
        LET idx == RankRows - i
            k == IF idx = 0 THEN 1
                 ELSE IF 100 * idx <= 25 * (RankRows - 1) THEN 2
                 ELSE IF 100 * idx <= 50 * (RankRows - 1) THEN 3
                 ELSE IF 100 * idx <= 75 * (RankRows - 1) THEN 4
                 ELSE IF 100 * idx <= 90 * (RankRows - 1) THEN 5
                 ELSE 6
        IN  Row(i, Lvl3, TRUE, t[k])]

\* compared values, times 100: quarter steps from below the least to above the
\* greatest metric value
RankValues == {25 * k : k \in (-1)..(4 * MaxStat + 1)}

InitRank ==
    /\ \E t \in OrderedStats :
          LET out == create_benchmark(RankData(t), MetricScore, <<>>)
          IN  /\ benchmarks = StoreBenchmark(<<>>, get_benchmark_key(MetricScore, <<>>), out.value)
              /\ createdFor = StoreBenchmark(<<>>, <<MetricScore, {}>>, out.value)
    /\ InitResult /\ InitPred /\ InitDet /\ InitGlobals /\ InitFit /\ InitScorer

NextRank ==
    \E v \in RankValues :
        /\ CompareToBenchmark(v, MetricScore, <<>>)
        /\ UNCHANGED <<scorer, surfaced, pred, det, initVars, fitVars>>

SpecRank == InitRank /\ [][NextRank]_vars

-----------------------------------------------------------------------------
(* SpecBench: the benchmark store under create_benchmark, compare_to_benchmark
   and batch_compare *)

\* compared values, times 100
BenchValues == {150, 400}

\* users_data tables of batch_compare: up to MaxBatch rows, user_id = position
BatchTables ==
    UNION { { [i \in 1..n |-> Row(i, f[i], TRUE, i)] : f \in [1..n -> {Lvl3, Lvl4}] } :
            n \in 0..MaxBatch }

\* segments of one key at most, and of two keys
SmallSegments == {s \in Segments : Len(s) <= 1}
TwoKeySegments == {s \in Segments : Len(s) = 2}

InitBenchSpec ==
    InitBench /\ InitResult /\ InitPred /\ InitDet /\ InitGlobals /\ InitFit /\ InitScorer

notBench == <<scorer, surfaced, pred, det, initVars, fitVars>>

NextBench ==
    \/ \E n3 \in (MinSamples - 1)..MaxRows, miss \in 0..MaxMissing, s \in SmallSegments :
          CreateBenchmark(MkData(n3, miss), MetricScore, s) /\ UNCHANGED notBench
    \/ \E s \in TwoKeySegments :
          CreateBenchmark(MkData(MaxRows, 0), MetricScore, s) /\ UNCHANGED notBench
    \/ \E v \in BenchValues, s \in Segments :
          CompareToBenchmark(v, MetricScore, s) /\ UNCHANGED notBench
    \/ \E t \in BatchTables, c \in {NoColumn, KeyLvl, KeyZone} :
          BatchCompare(t, MetricScore, c) /\ UNCHANGED notBench

SpecBench == InitBenchSpec /\ [][NextBench]_vars

-----------------------------------------------------------------------------
(* SpecInit: request threads making their first use of a component through
   the get_* accessors of main.py.  FastAPI runs a def dependency on a worker
   thread, so the accessors of concurrent requests interleave between the
   test of the global, the run of the constructor, the store into the global
   and the load of the model. *)

Components ==
    {"sentiment_analyzer", "productivity_predictor", "engagement_scorer",
     "anomaly_detector", "performance_benchmarker"}

\* the accessors that load a model when the environment names one
Loadable == {"productivity_predictor", "anomaly_detector"}

Requests == 1..NumRequests

\* the global holds None
NoInstance == 0

InitInitSpec ==
    /\ globals = [c \in Components |-> NoInstance]
    /\ env \in SUBSET Loadable
    /\ ctorCalls = [c \in Components |-> 0]
    /\ loadCalls = [c \in Components |-> 0]
    /\ req = [r \in Requests |-> [pc |-> "idle", comp |-> "none", mine |-> NoInstance,
                                  got |-> NoInstance]]
    /\ InitBench /\ InitResult /\ InitPred /\ InitDet /\ InitFit /\ InitScorer

notInit == <<scorer, benchVars, result, surfaced, pred, det, fitVars>>

\* a request arrives at an endpoint that depends on get_<c>
Call(r, c) ==
    /\ req[r].pc = "idle"
    /\ req' = [req EXCEPT ![r].pc = "test", ![r].comp = c]
    /\ UNCHANGED <<globals, env, ctorCalls, loadCalls, notInit>>

\* if _<c> is None:
TestGlobal(r) ==
    /\ req[r].pc = "test"
    /\ req' = [req EXCEPT ![r].pc =
                  IF globals[req[r].comp] = NoInstance THEN "construct" ELSE "return"]
    /\ UNCHANGED <<globals, env, ctorCalls, loadCalls, notInit>>

\* the right-hand side of _<c> = <Component>(): the constructor runs and
\* yields a new instance
Construct(r) ==
    /\ req[r].pc = "construct"
    /\ ctorCalls' = [ctorCalls EXCEPT ![req[r].comp] = @ + 1]
    /\ req' = [req EXCEPT ![r].pc = "assign", ![r].mine = ctorCalls[req[r].comp] + 1]
    /\ UNCHANGED <<globals, env, loadCalls, notInit>>

\* the store into the global
Assign(r) ==
    /\ req[r].pc = "assign"
    /\ globals' = [globals EXCEPT ![req[r].comp] = req[r].mine]
    /\ req' = [req EXCEPT ![r].pc = IF req[r].comp \in Loadable THEN "load" ELSE "return"]
    /\ UNCHANGED <<env, ctorCalls, loadCalls, notInit>>

\* if model_path and os.path.exists(model_path): _<c>.load_model(model_path)
LoadIfConfigured(r) ==
    /\ req[r].pc = "load"
    /\ loadCalls' = IF req[r].comp \in env
                    THEN [loadCalls EXCEPT ![req[r].comp] = @ + 1]
                    ELSE loadCalls
    /\ req' = [req EXCEPT ![r].pc = "return"]
    /\ UNCHANGED <<globals, env, ctorCalls, notInit>>

\* return _<c>
Return(r) ==
    /\ req[r].pc = "return"
    /\ req' = [req EXCEPT ![r].pc = "done", ![r].got = globals[req[r].comp]]
    /\ UNCHANGED <<globals, env, ctorCalls, loadCalls, notInit>>

NextInit ==
    \/ \E r \in Requests, c \in Components : Call(r, c)
    \/ \E r \in Requests : TestGlobal(r)
    \/ \E r \in Requests : Construct(r)
    \/ \E r \in Requests : Assign(r)
    \/ \E r \in Requests : LoadIfConfigured(r)
    \/ \E r \in Requests : Return(r)

SpecInit == InitInitSpec /\ [][NextInit]_vars

-----------------------------------------------------------------------------
(* AnomalyDetector: the fitted state.  A fitted part (scaler, model, baseline
   statistics) is known by the number of the dataset it was fitted on;
   Unfitted is the part as the constructor leaves it. *)

Methods == {"isolation_forest", "lof", "knn"}
Unfitted == 0

ModelClass(method) ==
    CASE method = "isolation_forest" -> "IsolationForest"
      [] method = "lof" -> "LOF"
      [] method = "knn" -> "KNN"
      [] OTHER -> "NoneType"

\* AnomalyDetector(method)
NewDetector(method) ==
    [method |-> method,
     scaler |-> Unfitted,
     model |-> [class |-> ModelClass(method), fit |-> Unfitted],
     baseline_stats |-> Unfitted]

\* fit as one call: scaler, model and baseline statistics of dataset d
fit(detector, d) ==
    [detector EXCEPT !.scaler = d, !.model.fit = d, !.baseline_stats = d]

\* whether detect returns, or what it raises, on the detector's state
detect(detector) ==
    IF detector.scaler = Unfitted THEN Raise("NotFittedError", "StandardScaler")
    ELSE IF detector.model.fit = Unfitted THEN Raise("NotFittedError", detector.model.class)
    ELSE IF detector.baseline_stats = Unfitted THEN Raise("KeyError", "mean")
    ELSE [ok |-> TRUE, value |-> [detection_method |-> detector.method]]

\* the bundle AnomalyDetector.save_model writes
DetectorBundle(detector) ==
    [model |-> detector.model, scaler |-> detector.scaler,
     baseline_stats |-> detector.baseline_stats, method |-> detector.method]

\* AnomalyDetector.load_model: the detector after it
DetectorLoad(detector, data) ==
    [method |-> data.method, scaler |-> data.scaler, model |-> data.model,
     baseline_stats |-> data.baseline_stats]

-----------------------------------------------------------------------------
(* AnomalyDetector.detect: the result computed from the metrics and from what
   the fitted model answers.  Metric values are in hundredths; model scores
   and the normalized score are in units of 1 / ScoreUnit. *)

ScoreUnit == 100000

\* metrics.get(key, default) on a dict given as a function on its keys
Get(metrics, key, default) ==
    IF key \in DOMAIN metrics THEN metrics[key] ELSE default

extract_features(metrics) ==
    [productivity_score |-> Get(metrics, "productivity_score", 100 * 50),
     engagement_score |-> Get(metrics, "engagement_score", 100 * 50),
     sentiment_score |-> Get(metrics, "sentiment_score", 0),
     hours_worked |-> Get(metrics, "hours_worked", 100 * 40),
     tasks_completed |-> Get(metrics, "tasks_completed", 0),
     meeting_hours |-> Get(metrics, "meeting_hours", 0),
     response_time |-> Get(metrics, "avg_response_time_hours", 100 * 4),
     collaboration_score |-> Get(metrics, "collaboration_score", 100 * 50),
     code_quality |-> Get(metrics, "code_quality_score", 100 * 70),
     bug_rate |-> Get(metrics, "bug_rate", 0)]

\* anomalies.append(tag) if the rule fires
AppendIf(anomalies, fires, tag) ==
    IF fires THEN Append(anomalies, tag) ELSE anomalies

\* classify_anomaly_type with the catch-all tag always appended
classify_anomaly_type_AlwaysGeneral(metrics, features) ==
    LET a1 == AppendIf(<<>>,
                  /\ features.hours_worked > 100 * 55
                  /\ features.productivity_score < 100 * 40
                  /\ features.sentiment_score < -30,
                  "BURNOUT")
        a4 == AppendIf(a1,
                  \/ features.hours_worked > 100 * 60
                  \/ features.meeting_hours > 100 * 30,
                  "OVERWORK")
    IN  Append(a4, "GENERAL_ANOMALY")

classify_anomaly_type(metrics, features) ==
    LET a1 == AppendIf(<<>>,
                  /\ features.hours_worked > 100 * 55
                  /\ features.productivity_score < 100 * 40
                  /\ features.sentiment_score < -30,
                  "BURNOUT")
        a2 == AppendIf(a1,
                  /\ features.engagement_score < 100 * 30
                  /\ features.response_time > 100 * 24
                  /\ Get(metrics, "meeting_attendance_rate", 100) < 50,
                  "DISENGAGEMENT")
        productivity_trend == Get(metrics, "productivity_trend_30d", 0)
        a3 == AppendIf(a2,
                  /\ features.productivity_score < 100 * 40
                  /\ productivity_trend < -(100 * 10),
                  "PERFORMANCE_DECLINE")
        a4 == AppendIf(a3,
                  \/ features.hours_worked > 100 * 60
                  \/ features.meeting_hours > 100 * 30,
                  "OVERWORK")
        a5 == AppendIf(a4,
                  \/ features.bug_rate > 15
                  \/ features.code_quality < 100 * 50,
                  "QUALITY_DECLINE")
        a6 == AppendIf(a5,
                  /\ features.collaboration_score < 100 * 30
                  /\ Get(metrics, "communication_frequency", 0) < 100 * 10,
                  "SOCIAL_WITHDRAWAL")
        sentiment_trend == Get(metrics, "sentiment_trend_30d", 0)
        anomalies == AppendIf(a6,
                  \/ features.sentiment_score < -50
                  \/ sentiment_trend < -30,
                  "NEGATIVE_SENTIMENT_SPIKE")
    IN  IF anomalies # <<>> THEN anomalies ELSE <<"GENERAL_ANOMALY">>

\* assess_severity without the escalation for critical types
assess_severity_NoEscalation(anomaly_score, anomaly_types) ==
    IF anomaly_score > 80 * ScoreUnit THEN "CRITICAL"
    ELSE IF anomaly_score > 60 * ScoreUnit THEN "HIGH"
    ELSE IF anomaly_score > 40 * ScoreUnit THEN "MEDIUM"
    ELSE "LOW"

assess_severity(anomaly_score, anomaly_types) ==
    LET base_severity ==
            IF anomaly_score > 80 * ScoreUnit THEN "CRITICAL"
            ELSE IF anomaly_score > 60 * ScoreUnit THEN "HIGH"
            ELSE IF anomaly_score > 40 * ScoreUnit THEN "MEDIUM"
            ELSE "LOW"
        critical_types == {"BURNOUT", "SEVERE_DISENGAGEMENT", "MENTAL_HEALTH_CONCERN"}
    IN  IF \E i \in DOMAIN anomaly_types : anomaly_types[i] \in critical_types
        THEN "CRITICAL"
        ELSE base_severity

\* get_risk_level without the BURNOUT clause
get_risk_level_NoBurnout(anomaly_score, anomaly_types) ==
    IF anomaly_score > 80 * ScoreUnit THEN "CRITICAL"
    ELSE IF anomaly_score > 60 * ScoreUnit THEN "HIGH"
    ELSE IF anomaly_score > 40 * ScoreUnit THEN "MEDIUM"
    ELSE "LOW"

get_risk_level(anomaly_score, anomaly_types) ==
    IF anomaly_score > 80 * ScoreUnit \/ "BURNOUT" \in Range(anomaly_types)
    THEN "CRITICAL"
    ELSE IF anomaly_score > 60 * ScoreUnit THEN "HIGH"
    ELSE IF anomaly_score > 40 * ScoreUnit THEN "MEDIUM"
    ELSE "LOW"

\* assess_urgency without the branch for HIGH
assess_urgency_NoSoon(severity, anomaly_types) ==
    LET critical_types == {"BURNOUT", "MENTAL_HEALTH_CONCERN"} IN
    IF severity = "CRITICAL" \/ \E i \in DOMAIN anomaly_types : anomaly_types[i] \in critical_types
    THEN "IMMEDIATE"
    ELSE "MONITOR"

assess_urgency(severity, anomaly_types) ==
    LET critical_types == {"BURNOUT", "MENTAL_HEALTH_CONCERN"} IN
    IF severity = "CRITICAL" \/ \E i \in DOMAIN anomaly_types : anomaly_types[i] \in critical_types
    THEN "IMMEDIATE"
    ELSE IF severity = "HIGH" THEN "SOON"
    ELSE "MONITOR"

\* what the fitted model answers for the scaled sample: the value of
\* score_samples (isolation forest) or decision_function (lof, knn), and
\* whether predict calls the sample an outlier
ModelAnswer(score, outlier) == [score |-> score, outlier |-> outlier]

\* model.predict: -1 / 1 for the isolation forest, 1 / 0 for lof and knn
ModelPredict(method, answer) ==
    IF method = "isolation_forest"
    THEN IF answer.outlier THEN -1 ELSE 1
    ELSE IF answer.outlier THEN 1 ELSE 0

\* RawAnomalyScore with the isolation forest's score not negated
RawAnomalyScore_NotNegated(method, answer) == answer.score

\* anomaly_score of lines 89-94
RawAnomalyScore(method, answer) ==
    IF method = "isolation_forest" THEN -answer.score ELSE answer.score

Abs(x) == IF x < 0 THEN -x ELSE x

\* the dict detect returns (deviations, factors, recommendations and actions
\* left out)
DetectResult(method, metrics, answer) ==
    LET features == extract_features(metrics)
        anomaly_score == RawAnomalyScore(method, answer)
        is_anomaly == IF method = "isolation_forest"
                      THEN ModelPredict(method, answer) = -1
                      ELSE ModelPredict(method, answer) = 1
        normalized_score == Min(Max(anomaly_score * 50 + 50 * ScoreUnit, 0), 100 * ScoreUnit)
        anomaly_types == classify_anomaly_type(metrics, features)
        severity == assess_severity(normalized_score, anomaly_types)
        urgency == assess_urgency(severity, anomaly_types)
    IN  [is_anomaly |-> is_anomaly,
         anomaly_score |-> Round2(Frac(normalized_score, ScoreUnit)),
         confidence_score |-> Round2(Frac(Min(Abs(anomaly_score), 2 * ScoreUnit), 2 * ScoreUnit)),
         anomaly_types |-> anomaly_types,
         severity |-> severity,
         detection_method |-> method,
         current_metrics |-> features,
         risk_level |-> get_risk_level(normalized_score, anomaly_types),
         urgency |-> urgency]

-----------------------------------------------------------------------------
(* ProductivityPredictor *)

ModelTypes == {"random_forest", "gradient_boosting"}

\* a model_type the constructor has no branch for (self.model stays None)
OtherModelType == "lstm"

RegressorClass(model_type) ==
    CASE model_type = "random_forest" -> "RandomForestRegressor"
      [] model_type = "gradient_boosting" -> "GradientBoostingRegressor"
      [] OTHER -> "NoneType"

\* ProductivityPredictor(model_type); called is history: train or load_model
\* has been called on the instance
NewPredictor(model_type) ==
    [model_type |-> model_type,
     scaler |-> Unfitted,
     model |-> [class |-> RegressorClass(model_type), fit |-> Unfitted],
     called |-> FALSE]

\* train: the scaler is fitted (line 125) before the model is (line 129)
train(predictor, d) ==
    IF predictor.model.class = "NoneType"
    THEN [predictor EXCEPT !.scaler = d, !.called = TRUE]
    ELSE [predictor EXCEPT !.scaler = d, !.model.fit = d, !.called = TRUE]

train_outcome(predictor) ==
    IF predictor.model.class = "NoneType"
    THEN Raise("AttributeError", "'NoneType' object has no attribute 'fit'")
    ELSE [ok |-> TRUE, value |-> "training metrics"]

\* predict: the test of line 165, then scaler.transform and model.predict, which
\* raise sklearn's NotFittedError on an unfitted estimator
predict(predictor) ==
    IF predictor.model.class = "NoneType"
    THEN Raise("ValueError", "Model not trained. Call train() first.")
    ELSE IF predictor.scaler = Unfitted
    THEN Raise("NotFittedError", "StandardScaler")
    ELSE IF predictor.model.fit = Unfitted
    THEN Raise("NotFittedError", predictor.model.class)
    ELSE [ok |-> TRUE, value |-> [model |-> predictor.model.class]]

\* the bundle ProductivityPredictor.save_model writes: no model_type in it
PredictorBundle(predictor) ==
    [model |-> predictor.model, scaler |-> predictor.scaler]

\* ProductivityPredictor.load_model: the predictor after it
PredictorLoad(predictor, data) ==
    [predictor EXCEPT !.model = data.model, !.scaler = data.scaler, !.called = TRUE]

-----------------------------------------------------------------------------
(* SpecService: one predictor and one detector under train, fit, load_model,
   predict and detect, call after call *)

\* datasets and saved bundles are numbered; 1 is the dataset of train and fit,
\* 2 the dataset the saved bundles were fitted on
TrainSet == 1
SavedSet == 2

InitService ==
    /\ \E t \in ModelTypes \cup {OtherModelType} : pred = NewPredictor(t)
    /\ \E m \in Methods : det = NewDetector(m)
    /\ InitBench /\ InitResult /\ InitGlobals /\ InitFit /\ InitScorer

notService == <<scorer, benchVars, surfaced, initVars, fitVars>>

Train ==
    /\ pred' = train(pred, TrainSet)
    /\ result' = [op |-> "ProductivityPredictor.train", out |-> train_outcome(pred)]
    /\ UNCHANGED <<det, notService>>

\* predict with scaler.fit_transform(X) for scaler.transform(X)
Predict_Refit ==
    /\ result' = [op |-> "ProductivityPredictor.predict", out |-> predict(pred)]
    /\ pred' = IF predict(pred).ok THEN [pred EXCEPT !.scaler = SavedSet] ELSE pred
    /\ UNCHANGED <<det, notService>>

Predict ==
    /\ result' = [op |-> "ProductivityPredictor.predict", out |-> predict(pred)]
    /\ UNCHANGED <<pred, det, notService>>

\* load_model of a bundle saved by a trained predictor of type t
LoadPredictor(t) ==
    /\ pred' = PredictorLoad(pred, PredictorBundle(train(NewPredictor(t), SavedSet)))
    /\ result' = [op |-> "ProductivityPredictor.load_model", tag |-> t,
                  out |-> [ok |-> TRUE]]
    /\ UNCHANGED <<det, notService>>

Fit ==
    /\ det' = fit(det, TrainSet)
    /\ result' = [op |-> "AnomalyDetector.fit", out |-> [ok |-> TRUE]]
    /\ UNCHANGED <<pred, notService>>

Detect ==
    /\ result' = [op |-> "AnomalyDetector.detect", out |-> detect(det)]
    /\ UNCHANGED <<pred, det, notService>>

\* load_model of a bundle saved by a fitted detector of method m
LoadDetector(m) ==
    /\ det' = DetectorLoad(det, DetectorBundle(fit(NewDetector(m), SavedSet)))
    /\ result' = [op |-> "AnomalyDetector.load_model", tag |-> m,
                  out |-> [ok |-> TRUE]]
    /\ UNCHANGED <<pred, notService>>

NextService ==
    \/ Train
    \/ Predict
    \/ \E t \in ModelTypes : LoadPredictor(t)
    \/ Fit
    \/ Detect
    \/ \E m \in Methods : LoadDetector(m)

SpecService == InitService /\ [][NextService]_vars

-----------------------------------------------------------------------------
(* SpecReads: one benchmarker, one predictor and one detector under the calls
   that write fitted state (create_benchmark, train, fit) and the calls that
   read it *)

ReadSegments == {<<>>, << <<KeyLvl, Lvl3>> >>, << <<KeyLvl, Lvl4>> >>}

ReadTables == {t \in BatchTables : Len(t) = MaxBatch}

NextReads ==
    \/ \E s \in ReadSegments :
          CreateBenchmark(MkData(MaxRows, 0), MetricScore, s) /\ UNCHANGED notBench
    \/ \E v \in BenchValues, s \in ReadSegments :
          CompareToBenchmark(v, MetricScore, s) /\ UNCHANGED notBench
    \/ \E t \in ReadTables, c \in {NoColumn, KeyLvl} :
          BatchCompare(t, MetricScore, c) /\ UNCHANGED notBench
    \/ \E s \in ReadSegments : GetBenchmark(MetricScore, s) /\ UNCHANGED notBench
    \/ GetAllBenchmarks /\ UNCHANGED notBench
    \/ Train
    \/ Predict
    \/ Fit
    \/ Detect

SpecReads == InitService /\ [][NextReads]_vars

-----------------------------------------------------------------------------
(* SpecDetect: detect calls on a fitted detector, over metrics around the
   thresholds of the rules and over model scores around the clamps and bands *)

MetricKeys ==
    {"hours_worked", "productivity_score", "sentiment_score", "engagement_score",
     "avg_response_time_hours", "meeting_attendance_rate", "productivity_trend_30d",
     "meeting_hours", "bug_rate", "code_quality_score", "collaboration_score",
     "communication_frequency", "sentiment_trend_30d"}

\* three values of each metric, in hundredths: at the threshold of its rule,
\* just beyond it, and far beyond it (beyond the second threshold, for a metric
\* that has two)
MetricLevels(key) ==
    CASE key = "hours_worked" -> <<5500, 5600, 6100>>
      [] key = "productivity_score" -> <<4000, 3900, 0>>
      [] key = "sentiment_score" -> <<-30, -31, -51>>
      [] key = "engagement_score" -> <<3000, 2900, 0>>
      [] key = "avg_response_time_hours" -> <<2400, 2500, 10000>>
      [] key = "meeting_attendance_rate" -> <<50, 49, 0>>
      [] key = "productivity_trend_30d" -> <<-1000, -1100, -5000>>
      [] key = "meeting_hours" -> <<3000, 3100, 6000>>
      [] key = "bug_rate" -> <<15, 16, 100>>
      [] key = "code_quality_score" -> <<5000, 4900, 0>>
      [] key = "collaboration_score" -> <<3000, 2900, 0>>
      [] key = "communication_frequency" -> <<1000, 900, 0>>
      [] key = "sentiment_trend_30d" -> <<-30, -31, -100>>

\* metrics dicts with at most MaxKeys keys
RuleMetrics ==
    UNION { {[k \in present |-> MetricLevels(k)[lv[k]]] : lv \in [present -> 1..3]} :
            present \in {ks \in SUBSET MetricKeys : Cardinality(ks) <= MaxKeys} }

\* answers of the model in the calls over RuleMetrics: normalized scores 5 and
\* 65, or 95 and 35 for the isolation forest
RuleAnswers == {ModelAnswer(-90000, FALSE), ModelAnswer(30000, TRUE)}

\* model scores around the clamps at -1 and 1, around 0 and around the
\* severity bands, and their opposites
ScoreSteps == {0, 1, 3, 100, 20000, 20001, 60000, 60001, 99999, 100000, 200000}
RawScores == ScoreSteps \cup {-x : x \in ScoreSteps}

ScoreMetrics == {<<>>, [hours_worked |-> 6100]}

\* a call about to be made: its arguments
Call_detect(metrics, answer) == [op |-> "call", metrics |-> metrics, answer |-> answer]

InitDetect ==
    /\ \E m \in Methods : det = fit(NewDetector(m), TrainSet)
    /\ \/ \E metrics \in RuleMetrics, answer \in RuleAnswers :
             result = Call_detect(metrics, answer)
       \/ \E metrics \in ScoreMetrics, score \in RawScores, outlier \in BOOLEAN :
             result = Call_detect(metrics, ModelAnswer(score, outlier))
    /\ surfaced = {}
    /\ InitBench /\ InitPred /\ InitGlobals /\ InitFit /\ InitScorer

notDetect == <<scorer, benchVars, surfaced, pred, initVars, fitVars>>

\* detector.detect(metrics) while the fitted model answers `answer`
DetectCall ==
    /\ result.op = "call"
    /\ result' = [op |-> "AnomalyDetector.detect",
                  metrics |-> result.metrics, answer |-> result.answer,
                  out |-> IF detect(det).ok
                          THEN [ok |-> TRUE,
                                value |-> DetectResult(det.method, result.metrics, result.answer)]
                          ELSE detect(det)]
    /\ UNCHANGED <<det, notDetect>>

NextDetect == DetectCall

SpecDetect == InitDetect /\ [][NextDetect]_vars

-----------------------------------------------------------------------------
(* EngagementScorer.  Numbers are exact fractions [num, den] in lowest terms;
   a division by zero is the fraction ZeroDivisionError, which every later
   operation hands on (the exception leaves calculate_score). *)

RECURSIVE GCD(_, _)
GCD(a, b) == IF b = 0 THEN a ELSE GCD(b, a % b)

Q(n, d) ==
    IF d = 0 THEN ZeroDivisionError
    ELSE LET g == GCD(Abs(n), Abs(d))
         IN  IF d < 0 THEN [num |-> (-n) \div g, den |-> (-d) \div g]
             ELSE [num |-> n \div g, den |-> d \div g]

N(n) == Q(n, 1)

Raised(a) == a.den = 0

QAdd(a, b) ==
    IF Raised(a) \/ Raised(b) THEN ZeroDivisionError
    ELSE Q(a.num * b.den + b.num * a.den, a.den * b.den)

QSub(a, b) ==
    IF Raised(a) \/ Raised(b) THEN ZeroDivisionError
    ELSE Q(a.num * b.den - b.num * a.den, a.den * b.den)

QMul(a, b) ==
    IF Raised(a) \/ Raised(b) THEN ZeroDivisionError
    ELSE Q(a.num * b.num, a.den * b.den)

QDiv(a, b) ==
    IF Raised(a) \/ Raised(b) THEN ZeroDivisionError
    ELSE Q(a.num * b.den, a.den * b.num)

QLess(a, b) == a.num * b.den < b.num * a.den

\* min(a, b) and max(a, b) of Python: the first argument unless the second is
\* smaller (greater)
QMin(a, b) ==
    IF Raised(a) \/ Raised(b) THEN ZeroDivisionError
    ELSE IF QLess(b, a) THEN b ELSE a

QMax(a, b) ==
    IF Raised(a) \/ Raised(b) THEN ZeroDivisionError
    ELSE IF QLess(a, b) THEN b ELSE a

RECURSIVE QSum(_)
QSum(terms) == IF terms = <<>> THEN N(0) ELSE QAdd(Head(terms), QSum(Tail(terms)))

\* min(count / full, 1.0) * points
Capped(count, full, points) == QMul(QMin(QDiv(count, N(full)), N(1)), N(points))

score_participation(metrics) ==
    LET meetings_attended == Get(metrics, "meetings_attended", N(0))
        total_meetings == Get(metrics, "total_meetings", N(1))
        attendance_rate == QMin(QDiv(meetings_attended, QMax(total_meetings, N(1))), N(1))
        participation_rate == Get(metrics, "meeting_participation_rate", Q(1, 2))
        surveys_completed == Get(metrics, "surveys_completed", N(0))
        total_surveys == Get(metrics, "total_surveys", N(1))
        survey_rate == QMin(QDiv(surveys_completed, QMax(total_surveys, N(1))), N(1))
        score == QSum(<<QMul(attendance_rate, N(30)),
                        QMul(participation_rate, N(25)),
                        Capped(Get(metrics, "forum_posts", N(0)), 10, 20),
                        Capped(Get(metrics, "events_attended", N(0)), 5, 15),
                        QMul(survey_rate, N(10))>>)
    IN  QMin(score, N(100))

score_communication(metrics) ==
    LET messages_sent == Get(metrics, "messages_sent", N(0))
        expected_messages == Get(metrics, "expected_messages_per_week", N(50))
        message_rate == QMin(QDiv(messages_sent, expected_messages), Q(3, 2))
        responses_to_mentions == Get(metrics, "responses_to_mentions", N(0))
        total_mentions == Get(metrics, "total_mentions", N(1))
        response_rate == QMin(QDiv(responses_to_mentions, QMax(total_mentions, N(1))), N(1))
        clarity_score == Get(metrics, "communication_clarity", Q(7, 10))
        score == QSum(<<QMin(QMul(message_rate, N(30)), N(40)),
                        QMul(response_rate, N(25)),
                        QMul(clarity_score, N(20)),
                        Capped(Get(metrics, "reactions_given", N(0)), 20, 15)>>)
    IN  QMin(score, N(100))

score_collaboration(metrics) ==
    QMin(QSum(<<Capped(Get(metrics, "code_reviews_given", N(0)), 10, 25),
                Capped(Get(metrics, "pair_programming_sessions", N(0)), 5, 20),
                Capped(Get(metrics, "knowledge_contributions", N(0)), 3, 20),
                Capped(Get(metrics, "cross_team_collaborations", N(0)), 5, 20),
                Capped(Get(metrics, "mentoring_sessions", N(0)), 3, 15)>>),
         N(100))

score_initiative(metrics) ==
    QMin(QSum(<<Capped(Get(metrics, "self_initiated_tasks", N(0)), 3, 30),
                Capped(Get(metrics, "improvements_suggested", N(0)), 2, 25),
                Capped(Get(metrics, "voluntary_contributions", N(0)), 3, 20),
                Capped(Get(metrics, "proactive_problem_solving", N(0)), 3, 15),
                Capped(Get(metrics, "learning_activities", N(0)), 2, 10)>>),
         N(100))

score_responsiveness(metrics) ==
    LET avg_response_time == Get(metrics, "avg_response_time_hours", N(24))
        timely == IF ~QLess(N(2), avg_response_time) THEN N(40)
                  ELSE IF ~QLess(N(8), avg_response_time) THEN N(30)
                  ELSE IF ~QLess(N(24), avg_response_time) THEN N(20)
                  ELSE N(10)
    IN  QMin(QSum(<<timely,
                    QMul(Get(metrics, "response_rate", Q(7, 10)), N(30)),
                    QMul(Get(metrics, "availability_percentage", Q(4, 5)), N(20)),
                    QMul(Get(metrics, "acknowledgment_rate", Q(3, 5)), N(10))>>),
             N(100))

get_score_level(score) ==
    IF FracGeq(score, 80) THEN "VERY_HIGH"
    ELSE IF FracGeq(score, 65) THEN "HIGH"
    ELSE IF FracGeq(score, 45) THEN "MODERATE"
    ELSE IF FracGeq(score, 30) THEN "LOW"
    ELSE "VERY_LOW"

calculate_trend(metrics) ==
    LET current_score == Get(metrics, "current_engagement_score", N(50))
        previous_score == Get(metrics, "previous_engagement_score", N(50))
        change == QSub(current_score, previous_score)
    IN  [direction |-> IF QLess(N(5), change) THEN "IMPROVING"
                       ELSE IF QLess(change, N(-5)) THEN "DECLINING"
                       ELSE "STABLE",
         change |-> Round2(change)]

\* a risk factor: its text and the points it adds, when its condition holds
RiskIf(condition, text, points) ==
    IF condition THEN <<[factor |-> text, points |-> points]>> ELSE <<>>

RECURSIVE RiskPoints(_)
RiskPoints(found) ==
    IF found = <<>> THEN 0 ELSE Head(found).points + RiskPoints(Tail(found))

\* _assess_risk with at_risk left False in the MEDIUM branch
assess_risk_AtRiskFromHigh(overall_score, component_scores, metrics) ==
    LET found ==
            RiskIf(FracLt(overall_score, 40), "Overall engagement below threshold", 30)
         \o RiskIf(QLess(Get(metrics, "engagement_trend", N(0)), N(-10)),
                   "Declining engagement trend", 20)
         \o RiskIf(FracLt(component_scores.participation, 30),
                   "Very low participation in meetings and activities", 15)
         \o RiskIf(FracLt(component_scores.communication, 30),
                   "Minimal communication with team", 15)
         \o RiskIf(FracLt(component_scores.initiative, 20),
                   "Lack of proactive behavior", 10)
         \o RiskIf(FracLt(component_scores.responsiveness, 30),
                   "Slow or no responses to communications", 10)
        risk_score == RiskPoints(found)
    IN  [risk_factors |-> [i \in DOMAIN found |-> found[i].factor],
         at_risk |-> risk_score >= 30,
         risk_level |-> IF risk_score >= 50 THEN "CRITICAL"
                        ELSE IF risk_score >= 30 THEN "HIGH"
                        ELSE IF risk_score >= 15 THEN "MEDIUM"
                        ELSE "LOW"]

assess_risk(overall_score, component_scores, metrics) ==
    LET found ==
            RiskIf(FracLt(overall_score, 40), "Overall engagement below threshold", 30)
         \o RiskIf(QLess(Get(metrics, "engagement_trend", N(0)), N(-10)),
                   "Declining engagement trend", 20)
         \o RiskIf(FracLt(component_scores.participation, 30),
                   "Very low participation in meetings and activities", 15)
         \o RiskIf(FracLt(component_scores.communication, 30),
                   "Minimal communication with team", 15)
         \o RiskIf(FracLt(component_scores.initiative, 20),
                   "Lack of proactive behavior", 10)
         \o RiskIf(FracLt(component_scores.responsiveness, 30),
                   "Slow or no responses to communications", 10)
        risk_score == RiskPoints(found)
    IN  [risk_factors |-> [i \in DOMAIN found |-> found[i].factor],
         at_risk |-> risk_score >= 15,
         risk_level |-> IF risk_score >= 50 THEN "CRITICAL"
                        ELSE IF risk_score >= 30 THEN "HIGH"
                        ELSE IF risk_score >= 15 THEN "MEDIUM"
                        ELSE "LOW"]

Dimensions ==
    <<"participation", "communication", "collaboration", "initiative", "responsiveness">>

\* the default weights, in hundredths: 0.25, 0.20, 0.20, 0.20, 0.15
DefaultWeights ==
    [d \in Range(Dimensions) |->
        IF d = "participation" THEN Q(25, 100)
        ELSE IF d = "responsiveness" THEN Q(15, 100)
        ELSE Q(20, 100)]

\* EngagementScorer(weights): None and {} are both falsy (the empty function)
NewScorer(weights) ==
    [weights |-> IF DOMAIN weights = {} THEN DefaultWeights ELSE weights]

\* the five component scores of the metrics
ComponentScores(metrics) ==
    [participation |-> score_participation(metrics),
     communication |-> score_communication(metrics),
     collaboration |-> score_collaboration(metrics),
     initiative |-> score_initiative(metrics),
     responsiveness |-> score_responsiveness(metrics)]

\* the sum of the component scores times weights, with equal weights ignoring
\* what was given
WeightedSum_Unweighted(weights, scores) ==
    QSum([i \in DOMAIN Dimensions |-> QMul(scores[Dimensions[i]], Q(1, 4))])

\* participation_score * self.weights['participation'] + ...
WeightedSum(weights, scores) ==
    QSum([i \in DOMAIN Dimensions |-> QMul(scores[Dimensions[i]], weights[Dimensions[i]])])

\* what calculate_score returns or raises (patterns and the summary of the
\* activity metrics, which echo the input, left out)
calculate_score(self, metrics) ==
    LET scores == ComponentScores(metrics)
        missing == {i \in DOMAIN Dimensions : Dimensions[i] \notin DOMAIN self.weights}
    IN  IF Raised(scores.communication)
        THEN Raise("ZeroDivisionError", "division by zero")
        ELSE IF missing # {}
        THEN Raise("KeyError", Dimensions[CHOOSE i \in missing : \A j \in missing : i <= j])
        ELSE LET overall_score == WeightedSum(self.weights, scores)
                 trend == calculate_trend(metrics)
                 risk == assess_risk(overall_score, scores, metrics)
             IN  [ok |-> TRUE,
                  value |->
                    [overall_score |-> Round2(overall_score),
                     score_level |-> get_score_level(overall_score),
                     component_scores |->
                        [d \in Range(Dimensions) |-> Round2(scores[d])],
                     trend_direction |-> trend.direction,
                     change_from_previous |-> trend.change,
                     risk_factors |-> risk.risk_factors,
                     at_risk |-> risk.at_risk,
                     risk_level |-> risk.risk_level]]

-----------------------------------------------------------------------------
(* SpecEngage: calculate_score on a scorer built with given weights, over
   metrics dicts of few keys and two dicts that give every component 100 and
   every component 50 *)

CountKeys ==
    {"meetings_attended", "forum_posts", "events_attended", "surveys_completed",
     "messages_sent", "responses_to_mentions", "reactions_given",
     "code_reviews_given", "pair_programming_sessions", "knowledge_contributions",
     "cross_team_collaborations", "mentoring_sessions",
     "self_initiated_tasks", "improvements_suggested", "voluntary_contributions",
     "proactive_problem_solving", "learning_activities"}

TotalKeys == {"total_meetings", "total_surveys", "total_mentions"}

RateKeys ==
    {"meeting_participation_rate", "communication_clarity", "response_rate",
     "availability_percentage", "acknowledgment_rate"}

EngagementKeys ==
    CountKeys \cup TotalKeys \cup RateKeys \cup
    {"expected_messages_per_week", "avg_response_time_hours", "engagement_trend",
     "current_engagement_score"}

\* three values of each metric: counts negative, zero and saturating; rates
\* negative, 1 and above 1; totals 0, 1 and 4
EngagementLevels(key) ==
    CASE key \in CountKeys -> <<N(-10), N(0), N(100)>>
      [] key \in TotalKeys -> <<N(0), N(1), N(4)>>
      [] key \in RateKeys -> <<Q(-1, 2), N(1), N(2)>>
      [] key = "expected_messages_per_week" -> <<N(0), N(-50), N(25)>>
      [] key = "avg_response_time_hours" -> <<N(2), N(8), N(25)>>
      [] key = "engagement_trend" -> <<N(-11), N(-10), N(0)>>
      [] key = "current_engagement_score" -> <<N(40), N(56), N(60)>>

\* the sets of at most n keys
RECURSIVE KeySets(_, _)
KeySets(keys, n) ==
    IF n = 0 THEN {{}}
    ELSE KeySets(keys, n - 1) \cup {ks \cup {k} : ks \in KeySets(keys, n - 1), k \in keys}

FewKeyMetrics ==
    UNION { {[k \in present |-> EngagementLevels(k)[lv[k]]] : lv \in [present -> 1..3]} :
            present \in KeySets(EngagementKeys, MaxEngKeys) }

\* every component at 100
FullMetrics ==
    [k \in CountKeys \cup RateKeys \cup {"avg_response_time_hours"} |->
        IF k \in CountKeys THEN N(100)
        ELSE IF k \in RateKeys THEN N(1)
        ELSE N(2)]

\* every component at 50
HalfMetrics ==
    [k \in {"meetings_attended", "meeting_participation_rate", "forum_posts",
            "messages_sent", "communication_clarity",
            "code_reviews_given", "pair_programming_sessions", "mentoring_sessions",
            "self_initiated_tasks", "voluntary_contributions",
            "avg_response_time_hours", "response_rate", "availability_percentage",
            "acknowledgment_rate"} |->
        CASE k \in {"meetings_attended", "communication_clarity", "mentoring_sessions",
                    "acknowledgment_rate"} -> N(1)
          [] k \in {"meeting_participation_rate", "response_rate",
                    "availability_percentage"} -> N(0)
          [] k \in {"forum_posts", "code_reviews_given"} -> N(10)
          [] k = "messages_sent" -> N(50)
          [] k = "pair_programming_sessions" -> N(5)
          [] k \in {"self_initiated_tasks", "voluntary_contributions"} -> N(3)
          [] k = "avg_response_time_hours" -> N(2)]

\* the two with an engagement_trend beyond and at the threshold of the risk
\* rule
TrendMetrics ==
    { [k \in DOMAIN m \cup {"engagement_trend"} |->
          IF k = "engagement_trend" THEN t ELSE m[k]] :
        m \in {FullMetrics, HalfMetrics}, t \in {N(-11), N(-10)} }

\* an overall score of 29.9975 under the default weights
BandEdgeMetrics ==
    [k \in {"meetings_attended", "messages_sent", "meeting_participation_rate"} |->
        CASE k = "meetings_attended" -> N(1)
          [] k = "messages_sent" -> N(50)
          [] k = "meeting_participation_rate" -> Q(6796, 10000)]

EngagementMetrics ==
    FewKeyMetrics \cup {FullMetrics, HalfMetrics, BandEdgeMetrics} \cup TrendMetrics

\* weights arguments of the constructor: none given, five equal weights, five
\* weights of 1, weights summing to 1/2, and a dict without 'initiative'
WeightArgs ==
    { <<>>,
      [d \in Range(Dimensions) |-> Q(1, 5)],
      [d \in Range(Dimensions) |-> N(1)],
      [d \in Range(Dimensions) |-> Q(1, 10)],
      [d \in Range(Dimensions) \ {"initiative"} |-> Q(1, 4)] }

Call_calculate_score(metrics) == [op |-> "call", metrics |-> metrics]

InitEngage ==
    /\ \E weights \in WeightArgs : scorer = NewScorer(weights)
    /\ \E metrics \in EngagementMetrics : result = Call_calculate_score(metrics)
    /\ surfaced = {}
    /\ InitBench /\ InitPred /\ InitDet /\ InitGlobals /\ InitFit

notEngage == <<benchVars, surfaced, pred, det, initVars, fitVars>>

CalculateScore ==
    /\ result.op = "call"
    /\ result' = [op |-> "EngagementScorer.calculate_score", metrics |-> result.metrics,
                  out |-> calculate_score(scorer, result.metrics)]
    /\ UNCHANGED <<scorer, notEngage>>

NextEngage == CalculateScore

SpecEngage == InitEngage /\ [][NextEngage]_vars

-----------------------------------------------------------------------------
(* ProductivityPredictor.predict: the feature vector and the factors computed
   from the features dict.  Values are in hundredths. *)

\* the fields of the feature vector, in the order extract_features appends
\* them
FeatureNames ==
    <<"commits_count", "pr_count", "code_reviews_given", "tasks_completed",
      "meetings_attended", "active_tasks", "pending_reviews", "hours_worked",
      "messages_sent", "collaboration_score", "day_of_week", "is_weekend",
      "avg_productivity_7d", "avg_productivity_30d", "productivity_trend",
      "engagement_score", "sentiment_score", "velocity", "burndown_rate",
      "code_quality_score", "bug_rate">>

\* the default of data.get(name, default) in extract_features
FeatureDefault(name) ==
    CASE name = "hours_worked" -> 4000
      [] name = "day_of_week" -> 100
      [] name \in {"avg_productivity_7d", "avg_productivity_30d", "engagement_score"} -> 5000
      [] OTHER -> 0

\* ProductivityPredictor.extract_features: the row of the feature vector
predictor_extract_features(data) ==
    [i \in DOMAIN FeatureNames |->
        IF FeatureNames[i] = "is_weekend"
        THEN IF Get(data, "day_of_week", FeatureDefault("day_of_week")) >= 600
             THEN 100 ELSE 0
        ELSE Get(data, FeatureNames[i], FeatureDefault(FeatureNames[i]))]

\* one if / elif of _identify_factors: the factor to append, or none
FactorIf(condition, text) == IF condition THEN <<text>> ELSE <<>>

identify_factors(features) ==
    LET engagement_score == Get(features, "engagement_score", 0)
        sentiment_score == Get(features, "sentiment_score", 0)
        collaboration_score == Get(features, "collaboration_score", 0)
        productivity_trend == Get(features, "productivity_trend", 0)
    IN  [positive |->
            FactorIf(engagement_score > 7000, "High engagement level")
         \o FactorIf(sentiment_score > 50, "Positive sentiment")
         \o FactorIf(collaboration_score > 7000, "Strong collaboration")
         \o FactorIf(productivity_trend > 10, "Improving trend"),
         negative |->
            FactorIf(~(engagement_score > 7000) /\ engagement_score < 4000,
                     "Low engagement level")
         \o FactorIf(~(sentiment_score > 50) /\ sentiment_score < -30,
                     "Negative sentiment")
         \o FactorIf(~(collaboration_score > 7000) /\ collaboration_score < 4000,
                     "Limited collaboration")
         \o FactorIf(Get(features, "active_tasks", 0) > 1000, "High workload")
         \o FactorIf(Get(features, "hours_worked", 4000) > 5000, "Potential overwork")
         \o FactorIf(~(productivity_trend > 10) /\ productivity_trend < -10,
                     "Declining trend")]

\* what predict returns or raises for a features dict; X is the row handed to
\* the scaler (the prediction, its interval and the recommendations left out)
predict_features(predictor, features) ==
    IF ~predict(predictor).ok THEN predict(predictor)
    ELSE LET factors == identify_factors(features) IN
         [ok |-> TRUE,
          X |-> predictor_extract_features(features),
          value |-> [positive_factors |-> factors.positive,
                     negative_factors |-> factors.negative]]

-----------------------------------------------------------------------------
(* SpecFactors: predict calls on a trained predictor, over features dicts of
   at most MaxFactorKeys keys around the thresholds of the factor rules *)

FactorKeys ==
    {"engagement_score", "sentiment_score", "collaboration_score", "active_tasks",
     "hours_worked", "productivity_trend", "day_of_week"}

FactorLevels(key) ==
    CASE key \in {"engagement_score", "collaboration_score"} -> <<3900, 4000, 7000, 7100>>
      [] key = "sentiment_score" -> <<-31, -30, 50, 51>>
      [] key = "active_tasks" -> <<0, 1000, 1100, 2000>>
      [] key = "hours_worked" -> <<4000, 5000, 5100, 6000>>
      [] key = "productivity_trend" -> <<-11, -10, 10, 11>>
      [] key = "day_of_week" -> <<100, 500, 600, 700>>

FactorFeatures ==
    UNION { {[k \in present |-> FactorLevels(k)[lv[k]]] : lv \in [present -> 1..4]} :
            present \in KeySets(FactorKeys, MaxFactorKeys) }

InitFactors ==
    /\ \E t \in ModelTypes : pred = train(NewPredictor(t), TrainSet)
    /\ \E features \in FactorFeatures : result = [op |-> "call", features |-> features]
    /\ surfaced = {}
    /\ InitBench /\ InitDet /\ InitGlobals /\ InitFit /\ InitScorer

PredictCall ==
    /\ result.op = "call"
    /\ result' = [op |-> "ProductivityPredictor.predict", features |-> result.features,
                  out |-> predict_features(pred, result.features)]
    /\ UNCHANGED <<pred, det, notService>>

NextFactors == PredictCall

SpecFactors == InitFactors /\ [][NextFactors]_vars

-----------------------------------------------------------------------------
(* SentimentAnalyzer.  A text is the sequence of its whitespace-separated
   words, taken from Vocabulary.  The lexicon's compound score and the
   classifier's probabilities are in thousandths; what the three pretrained
   models answer for a text is an input of the call. *)

Vocabulary ==
    {"Deadline", "meeting", "bug", "how", "show", "thanks", "thank", "you",
     "please", "issue", "update", "ok", "?"}

\* word.lower()
LowerWord(word) == IF word = "Deadline" THEN "deadline" ELSE word

\* text.lower().split()
Words(text) == [i \in DOMAIN text |-> LowerWord(text[i])]

\* the words of the intent rules that occur inside a lower-case word of the
\* vocabulary
Within(word) ==
    CASE word = "show" -> {"how"}
      [] word \in {"how", "thanks", "please", "issue", "update", "?"} -> {word}
      [] OTHER -> {}

\* phrase in text_lower: a one-word phrase occurs inside some word, a two-word
\* phrase spans two neighbouring words
Occurs(phrase, text) ==
    LET words == Words(text) IN
    IF Len(phrase) = 1
    THEN \E i \in DOMAIN words : phrase[1] \in Within(words[i])
    ELSE \E i \in DOMAIN words :
            /\ i + 1 \in DOMAIN words
            /\ words[i] = phrase[1]
            /\ words[i + 1] = phrase[2]

\* round(x, 3) of a fraction, in thousandths (ties to even)
Round3(r) ==
    LET q == (1000 * r.num) \div r.den
        rem == (1000 * r.num) % r.den
    IN  IF 2 * rem > r.den THEN q + 1
        ELSE IF 2 * rem = r.den THEN q + (q % 2)
        ELSE q

\* the emotion model raises
EmotionFailure == [ok |-> FALSE]

\* the emotion model returns label/score pairs (scores in ten-thousandths,
\* labels distinct)
EmotionScores(pairs) == [ok |-> TRUE, results |-> pairs]

NeutralFallback == [scores |-> <<>>, dominant |-> "neutral", dominant_score |-> 500]

\* detect_emotions without the except clause: the failure leaves the method
detect_emotions_NoExcept(answer) ==
    IF ~answer.ok THEN Raise("RuntimeError", "emotion model")
    ELSE IF answer.results = <<>> THEN Raise("ValueError", "max() arg is an empty sequence")
    ELSE LET results == answer.results
             rounded == [i \in DOMAIN results |-> Round3(Frac(results[i].score, 10000))]
             top == CHOOSE i \in DOMAIN results :
                       /\ \A j \in DOMAIN results : rounded[j] <= rounded[i]
                       /\ \A j \in 1..(i - 1) : rounded[j] < rounded[i]
         IN  [scores |-> [l \in {results[i].label : i \in DOMAIN results} |->
                            rounded[CHOOSE i \in DOMAIN results : results[i].label = l]],
              dominant |-> results[top].label,
              dominant_score |-> rounded[top]]

\* _detect_emotions: the scores by label and the first label of greatest
\* score; any exception (the model's, or max() of no results) gives the
\* neutral fallback
detect_emotions(answer) ==
    IF ~answer.ok THEN NeutralFallback
    ELSE IF answer.results = <<>> THEN NeutralFallback
    ELSE LET results == answer.results
             rounded == [i \in DOMAIN results |-> Round3(Frac(results[i].score, 10000))]
             top == CHOOSE i \in DOMAIN results :
                       /\ \A j \in DOMAIN results : rounded[j] <= rounded[i]
                       /\ \A j \in 1..(i - 1) : rounded[j] < rounded[i]
         IN  [scores |-> [l \in {results[i].label : i \in DOMAIN results} |->
                            rounded[CHOOSE i \in DOMAIN results : results[i].label = l]],
              dominant |-> results[top].label,
              dominant_score |-> rounded[top]]

\* topic_keywords, in the order of the dict
TopicKeywords ==
    << [topic |-> "deadline", keywords |-> {"deadline", "due", "urgent", "asap"}],
       [topic |-> "meeting", keywords |-> {"meeting", "call", "discussion", "sync"}],
       [topic |-> "project", keywords |-> {"project", "milestone", "deliverable"}],
       [topic |-> "feedback", keywords |-> {"feedback", "review", "comments"}],
       [topic |-> "approval", keywords |-> {"approve", "approval", "sign-off"}],
       [topic |-> "issue", keywords |-> {"issue", "problem", "bug", "error"}],
       [topic |-> "help", keywords |-> {"help", "support", "assist"}] >>

extract_topics(text) ==
    LET words == Range(Words(text))
        hit(entry) == entry.keywords \cap words # {}
        detected_topics == SelectSeq(TopicKeywords, hit)
    IN  [i \in 1..Min(Len(detected_topics), 5) |-> detected_topics[i].topic]

classify_intent(text) ==
    IF \E p \in {<<"?">>, <<"how">>, <<"what">>, <<"when">>, <<"where">>, <<"why">>} :
          Occurs(p, text)
    THEN "QUESTION"
    ELSE IF \E p \in {<<"thanks">>, <<"thank", "you">>, <<"great">>, <<"excellent">>,
                      <<"good", "job">>} : Occurs(p, text)
    THEN "PRAISE"
    ELSE IF \E p \in {<<"please">>, <<"could", "you">>, <<"can", "you">>,
                      <<"would", "you">>} : Occurs(p, text)
    THEN "REQUEST"
    ELSE IF \E p \in {<<"issue">>, <<"problem">>, <<"concern">>, <<"complaint">>} :
          Occurs(p, text)
    THEN "COMPLAINT"
    ELSE IF \E p \in {<<"update">>, <<"status">>, <<"progress">>} : Occurs(p, text)
    THEN "STATUS_UPDATE"
    ELSE "INFORMATION"

\* combined_score is in ten-thousandths
get_sentiment_label(score) ==
    IF score <= -6000 THEN "VERY_NEGATIVE"
    ELSE IF score <= -2000 THEN "NEGATIVE"
    ELSE IF score <= 2000 THEN "NEUTRAL"
    ELSE IF score <= 6000 THEN "POSITIVE"
    ELSE "VERY_POSITIVE"

\* what the models answer for a text: the lexicon's compound score, the
\* classifier's probability of the positive class, and the emotion model's
\* answer
ModelAnswers(compound, positive, emotion) ==
    [compound |-> compound, positive |-> positive, emotion |-> emotion]

\* the weighted average with the weights exchanged
CombinedScore_Exchanged(compound, transformer_score) ==
    compound * 7 + transformer_score * 3

\* vader_scores['compound'] * 0.3 + transformer_score * 0.7, in
\* ten-thousandths
CombinedScore(compound, transformer_score) ==
    compound * 3 + transformer_score * 7

\* what analyze returns or raises
analyze(text, answer) ==
    LET transformer_score == answer.positive - (1000 - answer.positive)
        confidence == Max(1000 - answer.positive, answer.positive)
        combined_score == CombinedScore(answer.compound, transformer_score)
        emotions == detect_emotions(answer.emotion)
    IN  IF "class" \in DOMAIN emotions
        THEN emotions
        ELSE [ok |-> TRUE,
              value |->
                [sentiment_score |-> Round3(Frac(combined_score, 10000)),
                 sentiment_label |-> get_sentiment_label(combined_score),
                 confidence |-> Round2(Frac(confidence, 1000)),
                 emotions |-> emotions,
                 dominant_emotion |-> emotions.dominant,
                 topics |-> extract_topics(text),
                 intent |-> classify_intent(text),
                 vader_scores |-> [compound |-> answer.compound],
                 transformer_confidence |-> Round2(Frac(confidence, 1000))]]

\* batch_analyze with results.insert(0, ...) for results.append(...)
RECURSIVE batch_analyze_Prepend(_, _)
batch_analyze_Prepend(texts, answers) ==
    IF texts = <<>> THEN [ok |-> TRUE, value |-> <<>>]
    ELSE LET r == analyze(Head(texts), Head(answers))
             rest == batch_analyze_Prepend(Tail(texts), Tail(answers))
         IN  IF ~r.ok THEN r
             ELSE IF ~rest.ok THEN rest
             ELSE [ok |-> TRUE, value |-> rest.value \o <<r.value>>]

\* the loop of batch_analyze over the texts that remain; answers[i] is what
\* the models answer for texts[i].  An analyze that raises ends the loop and
\* the call.
RECURSIVE batch_analyze_loop(_, _, _)
batch_analyze_loop(results, texts, answers) ==
    IF texts = <<>> THEN [ok |-> TRUE, value |-> results]
    ELSE LET r == analyze(Head(texts), Head(answers)) IN
         IF ~r.ok THEN r
         ELSE batch_analyze_loop(Append(results, r.value), Tail(texts), Tail(answers))

batch_analyze(texts, answers) == batch_analyze_loop(<<>>, texts, answers)

-----------------------------------------------------------------------------
(* SpecSentiment: analyze over texts of at most MaxWords words, batch_analyze
   over at most MaxTexts texts *)

RECURSIVE TextsOf(_)
TextsOf(n) ==
    IF n = 0 THEN {<<>>}
    ELSE TextsOf(n - 1) \cup {Append(t, w) : t \in TextsOf(n - 1), w \in Vocabulary}

Texts == TextsOf(MaxWords)

Compounds == {-1000, -667, 0, 1, 1000}
Positives == {0, 400, 500, 600, 643, 1000}

\* the emotion model fails, returns nothing, returns a clear winner, returns
\* two scores that round to the same value
EmotionAnswers ==
    { EmotionFailure,
      EmotionScores(<<>>),
      EmotionScores(<<[label |-> "joy", score |-> 9000], [label |-> "neutral", score |-> 1000]>>),
      EmotionScores(<<[label |-> "anger", score |-> 4996], [label |-> "sadness", score |-> 5004]>>) }

Call_analyze(text, answer) == [op |-> "call", text |-> text, answer |-> answer]

\* the texts of a batch and what the models answer for them
BatchItems ==
    { [text |-> text, answer |-> ModelAnswers(compound, 600, emotion)] :
        text \in {<<>>, <<"thanks">>, <<"bug">>}, compound \in {-1000, 1000},
        emotion \in {EmotionFailure,
                     EmotionScores(<<[label |-> "joy", score |-> 9000],
                                     [label |-> "neutral", score |-> 1000]>>)} }

RECURSIVE BatchesOf(_)
BatchesOf(n) ==
    IF n = 0 THEN {<<>>}
    ELSE BatchesOf(n - 1) \cup {Append(b, item) : b \in BatchesOf(n - 1), item \in BatchItems}

Call_batch_analyze(batch) ==
    [op |-> "batch_call", texts |-> [i \in DOMAIN batch |-> batch[i].text],
     answers |-> [i \in DOMAIN batch |-> batch[i].answer]]

InitSentiment ==
    /\ \/ \E text \in Texts, compound \in Compounds, positive \in Positives,
             emotion \in EmotionAnswers :
             result = Call_analyze(text, ModelAnswers(compound, positive, emotion))
       \/ \E batch \in BatchesOf(MaxTexts) : result = Call_batch_analyze(batch)
    /\ surfaced = {}
    /\ InitBench /\ InitPred /\ InitDet /\ InitGlobals /\ InitFit /\ InitScorer

notSentiment == <<scorer, benchVars, surfaced, pred, det, initVars, fitVars>>

Analyze ==
    /\ result.op = "call"
    /\ result' = [op |-> "SentimentAnalyzer.analyze", text |-> result.text,
                  answer |-> result.answer, out |-> analyze(result.text, result.answer)]
    /\ UNCHANGED notSentiment

BatchAnalyze ==
    /\ result.op = "batch_call"
    /\ result' = [op |-> "SentimentAnalyzer.batch_analyze", texts |-> result.texts,
                  answers |-> result.answers,
                  out |-> batch_analyze(result.texts, result.answers)]
    /\ UNCHANGED notSentiment

NextSentiment == Analyze \/ BatchAnalyze

SpecSentiment == InitSentiment /\ [][NextSentiment]_vars

-----------------------------------------------------------------------------
(* SpecErrors: the failures of inference before fitting, of a benchmark from
   too few samples and of a benchmark never created, as the components raise
   them and as the endpoints of api/main.py answer them *)

\* try: ... except Exception as e: raise HTTPException(status_code=500, detail=str(e))
Endpoint(out) ==
    IF out.ok THEN [ok |-> TRUE, status_code |-> 200, value |-> out.value]
    ELSE [ok |-> FALSE, class |-> "HTTPException", status_code |-> 500, msg |-> out.msg]

\* the failure a raised error is, from the operation and the error
Category(op, out) ==
    CASE op \in {"predict", "detect"} /\ out.class \in {"NotFittedError", "KeyError"}
            -> "NotReady"
      [] op = "predict" /\ out.msg = "Model not trained. Call train() first."
            -> "NotReady"
      [] op = "create_benchmark" /\ out.msg = "Insufficient data points"
            -> "InsufficientData"
      [] op = "compare_to_benchmark" /\ out.msg = "Benchmark not found"
            -> "NotFound"
      [] OTHER -> "Other"

\* history: the failures callers have seen; a component's caller sees the
\* exception class, an endpoint's caller the HTTP status
Surface(layer, op, out) ==
    IF out.ok THEN surfaced
    ELSE surfaced \cup
            {[layer |-> layer,
              category |-> Category(op, out),
              kind |-> IF layer = "api" THEN "HTTP 500" ELSE out.class,
              detail |-> out.msg]}

ErrSegment == << <<KeyLvl, Lvl3>> >>

InitErrors ==
    /\ pred = NewPredictor("random_forest")
    /\ det = NewDetector("isolation_forest")
    /\ InitBench /\ InitResult /\ InitGlobals /\ InitFit /\ InitScorer

notErrors == <<scorer, initVars, fitVars>>

CallPredict ==
    /\ result' = [op |-> "ProductivityPredictor.predict", out |-> predict(pred)]
    /\ surfaced' = Surface("component", "predict", predict(pred))
    /\ UNCHANGED <<pred, det, benchVars, notErrors>>

CallDetect ==
    /\ result' = [op |-> "AnomalyDetector.detect", out |-> detect(det)]
    /\ surfaced' = Surface("component", "detect", detect(det))
    /\ UNCHANGED <<pred, det, benchVars, notErrors>>

CallCreate(n3) ==
    /\ CreateBenchmark(MkData(n3, 0), MetricScore, ErrSegment)
    /\ surfaced' = Surface("component", "create_benchmark",
                           create_benchmark(MkData(n3, 0), MetricScore, ErrSegment))
    /\ UNCHANGED <<pred, det, notErrors>>

CallCompare(v) ==
    /\ CompareToBenchmark(v, MetricScore, ErrSegment)
    /\ surfaced' = Surface("component", "compare_to_benchmark",
                           compare_to_benchmark(benchmarks, v, MetricScore, ErrSegment))
    /\ UNCHANGED <<pred, det, notErrors>>

\* POST /api/ml/productivity/predict
predict_productivity ==
    /\ result' = [op |-> "POST /api/ml/productivity/predict",
                  out |-> Endpoint(predict(pred))]
    /\ surfaced' = Surface("api", "predict", predict(pred))
    /\ UNCHANGED <<pred, det, benchVars, notErrors>>

\* POST /api/ml/anomaly/detect
detect_anomaly ==
    /\ result' = [op |-> "POST /api/ml/anomaly/detect",
                  out |-> Endpoint(detect(det))]
    /\ surfaced' = Surface("api", "detect", detect(det))
    /\ UNCHANGED <<pred, det, benchVars, notErrors>>

\* POST /api/ml/benchmark/compare
compare_endpoint(v) ==
    LET out == compare_to_benchmark(benchmarks, v, MetricScore, ErrSegment) IN
    /\ result' = [op |-> "POST /api/ml/benchmark/compare", out |-> Endpoint(out)]
    /\ surfaced' = Surface("api", "compare_to_benchmark", out)
    /\ UNCHANGED <<pred, det, benchVars, notErrors>>

NextErrors ==
    \/ Train /\ surfaced' = surfaced
    \/ Fit /\ surfaced' = surfaced
    \/ CallPredict
    \/ CallDetect
    \/ \E n3 \in {MinSamples - 1, MinSamples} : CallCreate(n3)
    \/ \E v \in BenchValues : CallCompare(v)
    \/ predict_productivity
    \/ detect_anomaly
    \/ \E v \in BenchValues : compare_endpoint(v)

SpecErrors == InitErrors /\ [][NextErrors]_vars

-----------------------------------------------------------------------------
(* SpecFit: one caller fitting the detector, fit after fit, while other
   threads run detect on the same instance *)

Readers == 1..NumReaders

IdleReader == [pc |-> "idle", scaler |-> Unfitted, model |-> Unfitted,
               baseline |-> Unfitted, out |-> [ok |-> TRUE]]

InitFitSpec ==
    /\ \E m \in Methods : det = NewDetector(m)
    /\ fitter = [pc |-> "idle", data |-> 0]
    /\ readers = [r \in Readers |-> IdleReader]
    /\ InitBench /\ InitResult /\ InitPred /\ InitGlobals /\ InitScorer

notFit == <<scorer, benchVars, result, surfaced, pred, initVars>>

\* fit, line 54: self.scaler.fit_transform(historical_data), on the next dataset
FitScaler ==
    /\ fitter.pc = "idle"
    /\ fitter.data < MaxFits
    /\ det' = [det EXCEPT !.scaler = fitter.data + 1]
    /\ fitter' = [pc |-> "model", data |-> fitter.data + 1]
    /\ UNCHANGED <<readers, notFit>>

\* fit, lines 57-60: self.model.fit(X_scaled)
FitModel ==
    /\ fitter.pc = "model"
    /\ det' = [det EXCEPT !.model.fit = fitter.data]
    /\ fitter' = [fitter EXCEPT !.pc = "baseline"]
    /\ UNCHANGED <<readers, notFit>>

\* fit, lines 63-68: self.baseline_stats = {...}
FitBaseline ==
    /\ fitter.pc = "baseline"
    /\ det' = [det EXCEPT !.baseline_stats = fitter.data]
    /\ fitter' = [fitter EXCEPT !.pc = "idle"]
    /\ UNCHANGED <<readers, notFit>>

\* a detect call begins (lines 82-83 read only the argument)
DetectBegin(r) ==
    /\ readers[r].pc \in {"idle", "done"}
    /\ readers' = [readers EXCEPT ![r] = [IdleReader EXCEPT !.pc = "scale"]]
    /\ UNCHANGED <<det, fitter, notFit>>

\* detect, line 86: self.scaler.transform(X)
DetectScale(r) ==
    /\ readers[r].pc = "scale"
    /\ readers' = [readers EXCEPT ![r] =
          IF det.scaler = Unfitted
          THEN [@ EXCEPT !.pc = "done", !.out = Raise("NotFittedError", "StandardScaler")]
          ELSE [@ EXCEPT !.pc = "score", !.scaler = det.scaler]]
    /\ UNCHANGED <<det, fitter, notFit>>

\* detect, lines 89-94: score_samples / decision_function and predict of the model
DetectScore(r) ==
    /\ readers[r].pc = "score"
    /\ readers' = [readers EXCEPT ![r] =
          IF det.model.fit = Unfitted
          THEN [@ EXCEPT !.pc = "done", !.out = Raise("NotFittedError", det.model.class)]
          ELSE [@ EXCEPT !.pc = "deviations", !.model = det.model.fit]]
    /\ UNCHANGED <<det, fitter, notFit>>

\* detect, line 106: _calculate_deviations reads self.baseline_stats['mean']
DetectDeviations(r) ==
    /\ readers[r].pc = "deviations"
    /\ readers' = [readers EXCEPT ![r] =
          IF det.baseline_stats = Unfitted
          THEN [@ EXCEPT !.pc = "done", !.out = Raise("KeyError", "mean")]
          ELSE [@ EXCEPT !.pc = "done", !.baseline = det.baseline_stats]]
    /\ UNCHANGED <<det, fitter, notFit>>

NextFit ==
    \/ FitScaler
    \/ FitModel
    \/ FitBaseline
    \/ \E r \in Readers : DetectBegin(r)
    \/ \E r \in Readers : DetectScale(r)
    \/ \E r \in Readers : DetectScore(r)
    \/ \E r \in Readers : DetectDeviations(r)

SpecFit == InitFitSpec /\ [][NextFit]_vars

-----------------------------------------------------------------------------
(* Claims about the percentile rank, under SpecRank *)

\* the benchmark a completed comparison was made against
ComparedBenchmark == benchmarks[get_benchmark_key(result.metric_name, result.segment_by)]
Compared ==
    /\ result.op = "compare_to_benchmark"
    /\ get_benchmark_key(result.metric_name, result.segment_by) \in DOMAIN benchmarks

\* the stored statistics are ordered
OrderedBenchmark(b) ==
    /\ b.min_value <= b.percentile_25
    /\ b.percentile_25 <= b.percentile_50
    /\ b.percentile_50 <= b.percentile_75
    /\ b.percentile_75 <= b.percentile_90
    /\ b.percentile_90 <= b.max_value

\* C9: for every stored benchmark, whichever of its statistics are equal, and
\* every compared value, compare_to_benchmark divides by no zero and its
\* percentile rank, rounded or not, lies in [0, 100].
C9_RankDefinedInRange ==
    Compared =>
        LET r == calculate_percentile_rank(result.user_value, ComparedBenchmark)
        IN  /\ OrderedBenchmark(ComparedBenchmark)
            /\ result.out.ok
            /\ r.den > 0
            /\ 0 <= r.num /\ r.num <= 100 * r.den
            /\ 0 <= result.out.value.percentile_rank
            /\ result.out.value.percentile_rank <= 100 * 100

\* a comparison strictly inside the lowest piece of a benchmark whose 25th,
\* 50th and 75th percentiles coincide
C9_Witness ==
    /\ Compared
    /\ result.out.ok
    /\ ComparedBenchmark.percentile_25 = ComparedBenchmark.percentile_75
    /\ ComparedBenchmark.min_value < result.user_value
    /\ result.user_value < ComparedBenchmark.percentile_25
    /\ result.out.value.percentile_rank > 0

\* C10: for a fixed stored benchmark the percentile rank is non-decreasing in
\* the compared value: no greater value ranks below, and no smaller value ranks
\* above, the value just compared.
C10_RankMonotone ==
    Compared =>
        LET b == ComparedBenchmark
            r == calculate_percentile_rank(result.user_value, b)
        IN  \A v \in RankValues :
               LET rv == calculate_percentile_rank(v, b) IN
               /\ rv.den > 0
               /\ result.user_value <= v =>
                    /\ FracLeq(r, rv)
                    /\ result.out.value.percentile_rank <= Round2(rv)
               /\ v <= result.user_value =>
                    /\ FracLeq(rv, r)
                    /\ Round2(rv) <= result.out.value.percentile_rank

\* a comparison between the 75th and 90th percentiles, with a greater value
\* that ranks strictly higher and a smaller one that ranks strictly lower
C10_Witness ==
    /\ Compared
    /\ result.out.ok
    /\ ComparedBenchmark.percentile_75 < result.user_value
    /\ result.user_value < ComparedBenchmark.percentile_90
    /\ \E v1, v2 \in RankValues :
          /\ v1 < result.user_value /\ result.user_value < v2
          /\ Round2(calculate_percentile_rank(v1, ComparedBenchmark))
                < result.out.value.percentile_rank
          /\ result.out.value.percentile_rank
                < Round2(calculate_percentile_rank(v2, ComparedBenchmark))

\* C11: a compared value at or below the stored min_value ranks 0 and one at
\* or above the stored max_value ranks 100.
C11_RankAtExtremes ==
    Compared =>
        /\ result.out.ok
        /\ result.user_value <= ComparedBenchmark.min_value
              => result.out.value.percentile_rank = 0
        /\ result.user_value >= ComparedBenchmark.max_value
              => result.out.value.percentile_rank = 100 * 100

\* C12: comparing the stored 25th, 50th, 75th and 90th percentile yields the
\* ranks 25, 50, 75 and 90.
C12_RankAtBreakpoints ==
    Compared =>
        /\ result.out.ok
        /\ result.user_value = ComparedBenchmark.percentile_25
              => result.out.value.percentile_rank = 100 * 25
        /\ result.user_value = ComparedBenchmark.percentile_50
              => result.out.value.percentile_rank = 100 * 50
        /\ result.user_value = ComparedBenchmark.percentile_75
              => result.out.value.percentile_rank = 100 * 75
        /\ result.user_value = ComparedBenchmark.percentile_90
              => result.out.value.percentile_rank = 100 * 90

\* the rank of the lowest stored statistic equal to v
LowestStatRank(b, v) ==
    IF v = b.min_value THEN 0
    ELSE IF v = b.percentile_25 THEN 25
    ELSE IF v = b.percentile_50 THEN 50
    ELSE IF v = b.percentile_75 THEN 75
    ELSE IF v = b.percentile_90 THEN 90
    ELSE 100

\* C12, amended: comparing a stored 25th, 50th, 75th or 90th percentile yields
\* the rank of the lowest stored statistic equal to it: 25, 50, 75 and 90 when
\* it exceeds the statistic below it, the lower rank (0 for min_value) when it
\* ties with lower statistics.
C12_RankAtLowestTie ==
    (/\ Compared
     /\ result.user_value \in {ComparedBenchmark.percentile_25,
                               ComparedBenchmark.percentile_50,
                               ComparedBenchmark.percentile_75,
                               ComparedBenchmark.percentile_90})
    => /\ result.out.ok
       /\ result.out.value.percentile_rank
             = 100 * LowestStatRank(ComparedBenchmark, result.user_value)

\* the stored 90th percentile compared, above the 75th: rank 90; and in the
\* same benchmark the median ties with the 25th percentile above min_value
C12_Witness ==
    /\ Compared
    /\ result.out.ok
    /\ result.user_value = ComparedBenchmark.percentile_90
    /\ ComparedBenchmark.percentile_75 < ComparedBenchmark.percentile_90
    /\ ComparedBenchmark.min_value < ComparedBenchmark.percentile_25
    /\ ComparedBenchmark.percentile_25 = ComparedBenchmark.percentile_50
    /\ result.out.value.percentile_rank = 100 * 90

-----------------------------------------------------------------------------
(* Claims about the benchmark store, under SpecBench *)

\* the row takes part in the segment: it matches every pair of segment_by
\* whose key is a column of the dataset
RowInSegment(row, segment_by) ==
    \A j \in DOMAIN segment_by :
        segment_by[j][1] \in DataColumns => row.lvl = segment_by[j][2]

\* the number of non-missing metric values among the segment's rows
ValidCount(data, segment_by) ==
    Cardinality({i \in DOMAIN data : data[i].has /\ RowInSegment(data[i], segment_by)})

\* the two messages create_benchmark raises for too small a sample
InsufficientData(out) ==
    /\ ~out.ok
    /\ out.class = "ValueError"
    /\ out.msg \in {"No data available for specified segment", "Insufficient data points"}

\* C5: a create_benchmark call whose segment holds fewer than 10 non-missing
\* metric values raises the insufficient-data ValueError and leaves the store
\* as it was; with 10 or more it succeeds, stores what it returns under the
\* pair's key, and the stored sample_size is the number of non-missing values.
C5_CreateThreshold ==
    [][ result'.op = "create_benchmark" =>
          LET n == ValidCount(result'.data, result'.segment_by)
              key == get_benchmark_key(result'.metric_name, result'.segment_by)
          IN  /\ n < MinSamples =>
                    InsufficientData(result'.out) /\ benchmarks' = benchmarks
              /\ n >= MinSamples =>
                    /\ result'.out.ok
                    /\ result'.out.value.sample_size = n
                    /\ key \in DOMAIN benchmarks'
                    /\ benchmarks'[key] = result'.out.value
                    /\ \A k \in DOMAIN benchmarks' \ {key} :
                          k \in DOMAIN benchmarks /\ benchmarks'[k] = benchmarks[k]
      ]_vars

\* a failed call on a segment of 10 rows or more, one value missing, with the
\* pair's earlier benchmark still in the store
C5_Witness ==
    /\ result.op = "create_benchmark"
    /\ ~result.out.ok
    /\ Len(SegmentRows(result.data, result.segment_by)) >= MinSamples
    /\ ValidCount(result.data, result.segment_by) = MinSamples - 1
    /\ get_benchmark_key(result.metric_name, result.segment_by) \in DOMAIN benchmarks

\* the identifying pair of a call: the metric and the segment dictionary
PairOf(metric_name, segment_by) == <<metric_name, SegItems(segment_by)>>

NotFound(out) ==
    ~out.ok /\ out.class = "ValueError" /\ out.msg = "Benchmark not found"

\* C6: compare_to_benchmark(v, m, s) raises benchmark-not-found if and only if
\* no create_benchmark for the pair (m, s) has succeeded before it; otherwise
\* it compares against the statistics of the latest successful
\* create_benchmark for (m, s).
C6_NotFoundIffNeverCreated ==
    result.op = "compare_to_benchmark" =>
        LET pair == PairOf(result.metric_name, result.segment_by) IN
        /\ NotFound(result.out) <=> pair \notin DOMAIN createdFor
        /\ pair \in DOMAIN createdFor =>
              /\ result.out.ok
              /\ result.out.value.benchmark_value = createdFor[pair].percentile_50
              /\ result.out.value.benchmark_stats.mean = createdFor[pair].mean
              /\ result.out.value.benchmark_stats.p75 = createdFor[pair].percentile_75
              /\ result.out.value.benchmark_stats.p90 = createdFor[pair].percentile_90

\* the segment batch_compare builds for a row
BatchSegment(row, segment_by_column) ==
    IF segment_by_column \in DataColumns
    THEN << <<segment_by_column, row.lvl>> >>
    ELSE <<>>

\* the positions of the table's rows whose benchmark is in the store
StoredRows(users_data, metric_name, segment_by_column) ==
    {i \in DOMAIN users_data :
        get_benchmark_key(metric_name, BatchSegment(users_data[i], segment_by_column))
            \in DOMAIN benchmarks}

\* C7: batch_compare over rows with metric values does not fail on a missing
\* benchmark: it returns, in input order, exactly one entry for each row whose
\* benchmark is in the store, the one compare_to_benchmark gives for that row,
\* and no entry for any other row.
C7_BatchSkipsMissing ==
    result.op = "batch_compare" =>
        LET rows == result.users_data
            stored == StoredRows(rows, result.metric_name, result.segment_by_column)
            entries == result.out.value
        IN  /\ result.out.ok
            /\ Len(entries) = Cardinality(stored)
            /\ {entries[j].user_id : j \in DOMAIN entries} = {rows[i].user_id : i \in stored}
            /\ \A j, k \in DOMAIN entries : j < k => entries[j].user_id < entries[k].user_id
            /\ \A j \in DOMAIN entries :
                  LET i == entries[j].user_id
                      single == compare_to_benchmark(benchmarks, 100 * rows[i].val,
                                    result.metric_name,
                                    BatchSegment(rows[i], result.segment_by_column))
                  IN  /\ single.ok
                      /\ entries[j].percentile_rank = single.value.percentile_rank
                      /\ entries[j].performance_level = single.value.performance_level

\* a batch of two rows, the first without a stored benchmark and skipped, the
\* second with one and answered
C7_Witness ==
    /\ result.op = "batch_compare"
    /\ result.out.ok
    /\ Len(result.users_data) = 2
    /\ StoredRows(result.users_data, result.metric_name, result.segment_by_column) = {2}
    /\ Len(result.out.value) = 1
    /\ result.out.value[1].user_id = 2

-----------------------------------------------------------------------------
(* Claims about lazy construction, under SpecInit *)

\* C1: lazy construction is exactly-once: however the first uses of a
\* component interleave, its constructor has run at most once and its
\* load_model at most once, and the requests that have their instance have the
\* same one.
C1_ExactlyOnceInit ==
    \A c \in Components :
        /\ ctorCalls[c] <= 1
        /\ loadCalls[c] <= 1
        /\ \A r1, r2 \in Requests :
              (req[r1].pc = "done" /\ req[r2].pc = "done"
                 /\ req[r1].comp = c /\ req[r2].comp = c)
              => req[r1].got = req[r2].got

-----------------------------------------------------------------------------
(* Claims about fit and detect, under SpecFit *)

\* C2: fit replaces the fitted state atomically: a detect call that has
\* returned a result used the scaler, the model and the baseline statistics
\* of one and the same fit.
C2_DetectSeesOneFit ==
    \A r \in Readers :
        (readers[r].pc = "done" /\ readers[r].out.ok) =>
            /\ readers[r].scaler = readers[r].model
            /\ readers[r].model = readers[r].baseline

-----------------------------------------------------------------------------
(* Claims about readiness and loading, under SpecService *)

NotTrainedError(out) ==
    /\ ~out.ok
    /\ out.class = "ValueError"
    /\ out.msg = "Model not trained. Call train() first."

\* C3: predict on an instance of a supported model_type on which neither train
\* nor load_model has been called raises the model-not-trained error.
C3_PredictBeforeTrain ==
    (/\ result.op = "ProductivityPredictor.predict"
     /\ pred.model_type \in ModelTypes
     /\ ~pred.called)
    => NotTrainedError(result.out)

\* C8: load_model rejects a bundle saved under another algorithm family than
\* the instance was configured with, and a rejected load leaves the instance
\* as it was.
C8_LoadRejectsOtherFamily ==
    [][ /\ (result'.op = "AnomalyDetector.load_model" /\ result'.tag # det.method)
            => (~result'.out.ok /\ det' = det)
        /\ (result'.op = "ProductivityPredictor.load_model" /\ result'.tag # pred.model_type)
            => (~result'.out.ok /\ pred' = pred)
      ]_vars

-----------------------------------------------------------------------------
(* Claim about error kinds, under SpecErrors *)

FatalCategories == {"NotReady", "InsufficientData", "NotFound"}

\* C4: failures of two different categories among NotReady, InsufficientData
\* and NotFound never reach the caller of one layer as the same error kind.
C4_FatalKindsDistinct ==
    \A a, b \in surfaced :
        (/\ a.category \in FatalCategories
         /\ b.category \in FatalCategories
         /\ a.layer = b.layer
         /\ a.category # b.category)
        => a.kind # b.kind

-----------------------------------------------------------------------------
(* Claims about detect results, under SpecDetect *)

Detected == result.op = "AnomalyDetector.detect" /\ result.out.ok

RuleTags ==
    {"BURNOUT", "DISENGAGEMENT", "PERFORMANCE_DECLINE", "OVERWORK", "QUALITY_DECLINE",
     "SOCIAL_WITHDRAWAL", "NEGATIVE_SENTIMENT_SPIKE"}

\* the metric as the rules read it: the given value, or the documented default
\* when the key is missing (hundredths)
Metric(m, key) ==
    IF key \in DOMAIN m THEN m[key]
    ELSE CASE key \in {"productivity_score", "engagement_score", "collaboration_score"} -> 5000
           [] key = "hours_worked" -> 4000
           [] key = "avg_response_time_hours" -> 400
           [] key = "code_quality_score" -> 7000
           [] key = "meeting_attendance_rate" -> 100
           [] OTHER -> 0

\* the rule predicate of a tag, on the metrics
RuleFires(tag, m) ==
    CASE tag = "BURNOUT" ->
            /\ Metric(m, "hours_worked") > 5500
            /\ Metric(m, "productivity_score") < 4000
            /\ Metric(m, "sentiment_score") < -30
      [] tag = "DISENGAGEMENT" ->
            /\ Metric(m, "engagement_score") < 3000
            /\ Metric(m, "avg_response_time_hours") > 2400
            /\ Metric(m, "meeting_attendance_rate") < 50
      [] tag = "PERFORMANCE_DECLINE" ->
            /\ Metric(m, "productivity_score") < 4000
            /\ Metric(m, "productivity_trend_30d") < -1000
      [] tag = "OVERWORK" ->
            \/ Metric(m, "hours_worked") > 6000
            \/ Metric(m, "meeting_hours") > 3000
      [] tag = "QUALITY_DECLINE" ->
            \/ Metric(m, "bug_rate") > 15
            \/ Metric(m, "code_quality_score") < 5000
      [] tag = "SOCIAL_WITHDRAWAL" ->
            /\ Metric(m, "collaboration_score") < 3000
            /\ Metric(m, "communication_frequency") < 1000
      [] tag = "NEGATIVE_SENTIMENT_SPIKE" ->
            \/ Metric(m, "sentiment_score") < -50
            \/ Metric(m, "sentiment_trend_30d") < -30

\* C13: anomaly_types is never empty and holds exactly the tags of the rules
\* that fire, each once; it is [GENERAL_ANOMALY] exactly when no rule fires,
\* and GENERAL_ANOMALY comes with no other tag.
C13_TypesAreFiredRules ==
    Detected =>
        LET types == result.out.value.anomaly_types
            fired == {tag \in RuleTags : RuleFires(tag, result.metrics)}
        IN  /\ types # <<>>
            /\ Len(types) = Cardinality(Range(types))
            /\ Range(types) \cap RuleTags = fired
            /\ Range(types) \subseteq RuleTags \cup {"GENERAL_ANOMALY"}
            /\ (types = <<"GENERAL_ANOMALY">>) <=> (fired = {})
            /\ "GENERAL_ANOMALY" \in Range(types) => Len(types) = 1

\* three rules fire on three given metrics
C13_Witness ==
    /\ Detected
    /\ Cardinality(DOMAIN result.metrics) = 3
    /\ result.out.value.anomaly_types = <<"BURNOUT", "OVERWORK", "NEGATIVE_SENTIMENT_SPIKE">>

\* C14: when the metrics satisfy the BURNOUT predicate, anomaly_types holds
\* BURNOUT and the severity is CRITICAL, whatever the score and the other tags.
C14_BurnoutIsCritical ==
    (/\ Detected
     /\ result.metrics # <<>>
     /\ "hours_worked" \in DOMAIN result.metrics
     /\ "productivity_score" \in DOMAIN result.metrics
     /\ "sentiment_score" \in DOMAIN result.metrics
     /\ result.metrics["hours_worked"] > 5500
     /\ result.metrics["productivity_score"] < 4000
     /\ result.metrics["sentiment_score"] < -30)
    => /\ "BURNOUT" \in Range(result.out.value.anomaly_types)
       /\ result.out.value.severity = "CRITICAL"

\* BURNOUT alone at a normalized score of 5
C14_Witness ==
    /\ Detected
    /\ result.out.value.anomaly_types = <<"BURNOUT">>
    /\ result.out.value.anomaly_score = 100 * 5
    /\ result.out.value.severity = "CRITICAL"

\* the model's score oriented so that higher is more anomalous
Oriented(method, score) == IF method = "isolation_forest" THEN -score ELSE score

\* clamp(s * 50 + 50, 0, 100), in units of 1 / ScoreUnit
Clamped(s) ==
    IF s * 50 + 50 * ScoreUnit < 0 THEN 0
    ELSE IF s * 50 + 50 * ScoreUnit > 100 * ScoreUnit THEN 100 * ScoreUnit
    ELSE s * 50 + 50 * ScoreUnit

\* C15: the returned anomaly_score is clamp(s * 50 + 50, 0, 100) for the
\* oriented score s (anomaly_score is in hundredths).
C15_ScoreIsClamp ==
    Detected =>
        result.out.value.anomaly_score * (ScoreUnit \div 100)
            = Clamped(Oriented(det.method, result.answer.score))

\* the returned score as a function of the oriented score s
ReturnedScore(method, s) ==
    DetectResult(method, <<>>, ModelAnswer(Oriented(method, s), FALSE)).anomaly_score

\* C15, amended: the returned anomaly_score is clamp(s * 50 + 50, 0, 100)
\* rounded to two decimals; it lies in [0, 100] and is non-decreasing in s.
C15_ScoreIsRoundedClamp ==
    Detected =>
        LET s == Oriented(det.method, result.answer.score)
            score == result.out.value.anomaly_score
        IN  /\ score = Round2(Frac(Clamped(s), ScoreUnit))
            /\ 0 <= score /\ score <= 100 * 100
            /\ \A s2 \in RawScores :
                  /\ s <= s2 => score <= ReturnedScore(det.method, s2)
                  /\ s2 <= s => ReturnedScore(det.method, s2) <= score

\* an isolation forest whose score_samples is negative: the score is negated,
\* lands strictly between the clamps and is rounded
C15_Witness ==
    /\ Detected
    /\ det.method = "isolation_forest"
    /\ result.answer.score = -20001
    /\ result.out.value.anomaly_score = 100 * 60

\* the band of a normalized score, in units of 1 / ScoreUnit
SeverityBand(normalized) ==
    CASE normalized > 80 * ScoreUnit -> "CRITICAL"
      [] normalized <= 80 * ScoreUnit /\ normalized > 60 * ScoreUnit -> "HIGH"
      [] normalized <= 60 * ScoreUnit /\ normalized > 40 * ScoreUnit -> "MEDIUM"
      [] normalized <= 40 * ScoreUnit -> "LOW"

\* C24: severity is the band of the normalized score (> 80 CRITICAL, > 60
\* HIGH, > 40 MEDIUM, else LOW), raised to CRITICAL when anomaly_types holds
\* BURNOUT, SEVERE_DISENGAGEMENT or MENTAL_HEALTH_CONCERN; urgency is IMMEDIATE
\* when severity is CRITICAL or anomaly_types holds BURNOUT or
\* MENTAL_HEALTH_CONCERN, SOON when severity is HIGH, MONITOR otherwise.
C24_SeverityAndUrgency ==
    Detected =>
        LET types == Range(result.out.value.anomaly_types)
            normalized == Clamped(Oriented(det.method, result.answer.score))
            severity == result.out.value.severity
            urgency == result.out.value.urgency
        IN  /\ severity =
                  IF types \cap {"BURNOUT", "SEVERE_DISENGAGEMENT", "MENTAL_HEALTH_CONCERN"} # {}
                  THEN "CRITICAL"
                  ELSE SeverityBand(normalized)
            /\ urgency =
                  (CASE severity = "CRITICAL"
                          \/ types \cap {"BURNOUT", "MENTAL_HEALTH_CONCERN"} # {} -> "IMMEDIATE"
                     [] severity = "HIGH"
                          /\ types \cap {"BURNOUT", "MENTAL_HEALTH_CONCERN"} = {} -> "SOON"
                     [] OTHER -> "MONITOR")

\* a normalized score just above 60 with no critical tag: HIGH and SOON
C24_Witness ==
    /\ Detected
    /\ Clamped(Oriented(det.method, result.answer.score)) = 60 * ScoreUnit + 50
    /\ result.out.value.anomaly_types = <<"OVERWORK">>
    /\ result.out.value.severity = "HIGH"
    /\ result.out.value.urgency = "SOON"

\* C28: in every detect result severity and risk_level are the same value.
C28_SeverityIsRiskLevel ==
    Detected => result.out.value.severity = result.out.value.risk_level

\* BURNOUT at a normalized score of 5: both are CRITICAL by escalation
C28_Witness ==
    /\ Detected
    /\ "BURNOUT" \in Range(result.out.value.anomaly_types)
    /\ Clamped(Oriented(det.method, result.answer.score)) = 5 * ScoreUnit
    /\ result.out.value.severity = "CRITICAL"
    /\ result.out.value.risk_level = "CRITICAL"

-----------------------------------------------------------------------------
(* Claims about engagement scores, under SpecEngage *)

ScoreCalled == result.op = "EngagementScorer.calculate_score"
Scored == ScoreCalled /\ result.out.ok

\* C16: the five component scores and the overall score that calculate_score
\* returns lie in [0, 100] (hundredths), here with the default weights.
C16_ScoresInRange ==
    (Scored /\ scorer.weights = DefaultWeights) =>
        /\ \A d \in Range(Dimensions) :
              /\ 0 <= result.out.value.component_scores[d]
              /\ result.out.value.component_scores[d] <= 100 * 100
        /\ 0 <= result.out.value.overall_score
        /\ result.out.value.overall_score <= 100 * 100

\* the sum of the weights of a scorer that has all five
WeightTotal(weights) == QSum([i \in DOMAIN Dimensions |-> weights[Dimensions[i]]])

\* C17: an overall score is only ever computed with weights for all five
\* dimensions that sum to 1.
C17_WeightsSumToOne ==
    Scored =>
        /\ DOMAIN scorer.weights = Range(Dimensions)
        /\ WeightTotal(scorer.weights) = N(1)

\* C18: with the default weights the overall score is
\* 0.25 participation + 0.20 communication + 0.20 collaboration
\* + 0.20 initiative + 0.15 responsiveness; when the five component scores are
\* equal it is their common value, and with all five at 100 it is 100 and the
\* level VERY_HIGH.
C18_DefaultWeightedSum ==
    (Scored /\ scorer.weights = DefaultWeights) =>
        LET c == ComponentScores(result.metrics)
            total == 25 * c.participation.num * c.communication.den * c.collaboration.den
                          * c.initiative.den * c.responsiveness.den
                   + 20 * c.communication.num * c.participation.den * c.collaboration.den
                          * c.initiative.den * c.responsiveness.den
                   + 20 * c.collaboration.num * c.participation.den * c.communication.den
                          * c.initiative.den * c.responsiveness.den
                   + 20 * c.initiative.num * c.participation.den * c.communication.den
                          * c.collaboration.den * c.responsiveness.den
                   + 15 * c.responsiveness.num * c.participation.den * c.communication.den
                          * c.collaboration.den * c.initiative.den
            scale == 100 * c.participation.den * c.communication.den * c.collaboration.den
                         * c.initiative.den * c.responsiveness.den
            equal == \A d \in Range(Dimensions) : c[d] = c.participation
        IN  /\ result.out.value.overall_score = Round2(Frac(total, scale))
            /\ equal => result.out.value.overall_score = Round2(c.participation)
            /\ (equal /\ c.participation = N(100)) =>
                  /\ result.out.value.overall_score = 100 * 100
                  /\ result.out.value.score_level = "VERY_HIGH"

\* all five component scores at 100 under the default weights
C18_Witness ==
    /\ Scored
    /\ scorer.weights = DefaultWeights
    /\ \A d \in Range(Dimensions) : result.out.value.component_scores[d] = 100 * 100
    /\ result.out.value.overall_score = 100 * 100
    /\ result.out.value.score_level = "VERY_HIGH"

\* C19: calculate_score returns a result for every metrics dict of numbers,
\* whichever keys are missing (the scorer has a weight for each dimension).
C19_NeverRaises ==
    (ScoreCalled /\ DOMAIN scorer.weights = Range(Dimensions)) => result.out.ok

-----------------------------------------------------------------------------
(* Claim about the emotion classifier's failure, under SpecSentiment *)

Analyzed == result.op = "SentimentAnalyzer.analyze"

\* C20: when the emotion classifier fails, analyze still returns a result; its
\* dominant_emotion is the neutral fallback, and sentiment score, label, topics
\* and intent are those of the same call with a classifier that succeeds.
C20_EmotionFailureIsNeutral ==
    (Analyzed /\ ~result.answer.emotion.ok) =>
        /\ result.out.ok
        /\ result.out.value.dominant_emotion = "neutral"
        /\ result.out.value.emotions = NeutralFallback
        /\ \A e \in {a \in EmotionAnswers : a.ok /\ a.results # <<>>} :
              LET other == analyze(result.text, [result.answer EXCEPT !.emotion = e])
              IN  /\ other.ok
                  /\ other.value.sentiment_score = result.out.value.sentiment_score
                  /\ other.value.sentiment_label = result.out.value.sentiment_label
                  /\ other.value.topics = result.out.value.topics
                  /\ other.value.intent = result.out.value.intent

\* the classifier fails on a text with a topic, an intent and a sentiment that
\* is not neutral, while another answer of the classifier names another emotion
C20_Witness ==
    /\ Analyzed
    /\ ~result.answer.emotion.ok
    /\ result.out.ok
    /\ result.out.value.dominant_emotion = "neutral"
    /\ result.out.value.topics = <<"deadline">>
    /\ result.out.value.intent = "REQUEST"
    /\ result.out.value.sentiment_label = "VERY_NEGATIVE"
    /\ \E e \in EmotionAnswers :
          /\ e.ok
          /\ analyze(result.text, [result.answer EXCEPT !.emotion = e]).value.dominant_emotion = "joy"

\* C21: batch_analyze returns one result per text, in the order of the texts,
\* and the i-th result is what analyze returns for the i-th text alone.
C21_BatchIsAnalyzePerItem ==
    result.op = "SentimentAnalyzer.batch_analyze" =>
        /\ result.out.ok
        /\ Len(result.out.value) = Len(result.texts)
        /\ \A i \in DOMAIN result.texts :
              result.out.value[i] = analyze(result.texts[i], result.answers[i]).value

\* a batch of two texts whose results differ
C21_Witness ==
    /\ result.op = "SentimentAnalyzer.batch_analyze"
    /\ Len(result.texts) = 2
    /\ result.out.ok
    /\ result.out.value[1] # result.out.value[2]

-----------------------------------------------------------------------------
(* Claims about the sentiment score and label, under SpecSentiment *)

\* the two polarities of an analyze call, in thousandths, and their weighted
\* average in ten-thousandths
Lexicon == result.answer.compound
Classifier == 2 * result.answer.positive - 1000
Weighted == 3 * Lexicon + 7 * Classifier

\* the band of a score in ten-thousandths
Band(score) ==
    CASE score <= -6000 -> "VERY_NEGATIVE"
      [] score > -6000 /\ score <= -2000 -> "NEGATIVE"
      [] score > -2000 /\ score <= 2000 -> "NEUTRAL"
      [] score > 2000 /\ score <= 6000 -> "POSITIVE"
      [] score > 6000 -> "VERY_POSITIVE"

\* C22: sentiment_score is 0.3 times the lexicon polarity plus 0.7 times the
\* classifier polarity and lies in [-1,1]; sentiment_label is the band of
\* sentiment_score.
C22_LabelIsBandOfScore ==
    Analyzed /\ result.out.ok =>
        /\ 10 * result.out.value.sentiment_score = Weighted
        /\ result.out.value.sentiment_score \in -1000..1000
        /\ result.out.value.sentiment_label = Band(10 * result.out.value.sentiment_score)

\* C22, amended: sentiment_score is 0.3 times the lexicon polarity plus 0.7
\* times the classifier polarity, rounded to three decimals, and lies in
\* [-1,1]; sentiment_label is the band of the weighted average before it is
\* rounded.
C22_LabelIsBandOfCombined ==
    Analyzed /\ result.out.ok =>
        /\ result.out.value.sentiment_score = Round3(Frac(Weighted, 10000))
        /\ result.out.value.sentiment_score \in -1000..1000
        /\ result.out.value.sentiment_label = Band(Weighted)

\* a weighted average of 0.2002: reported as 0.2, labelled POSITIVE
C22_Witness ==
    /\ Analyzed
    /\ result.out.ok
    /\ Weighted = 2002
    /\ result.out.value.sentiment_score = 200
    /\ result.out.value.sentiment_label = "POSITIVE"

-----------------------------------------------------------------------------
(* Claims about the engagement risk and score level, under SpecEngage *)

\* the component scores and the overall score of the call, before rounding
CallScores == ComponentScores(result.metrics)
CallOverall == WeightedSum(scorer.weights, CallScores)

Points(condition, points) == IF condition THEN points ELSE 0

\* the risk score of the claim: engagement_trend is the trend given in the
\* metrics, 0 when absent
ClaimedRiskScore ==
      Points(QLess(CallOverall, N(40)), 30)
    + Points(QLess(Get(result.metrics, "engagement_trend", N(0)), N(-10)), 20)
    + Points(QLess(CallScores.participation, N(30)), 15)
    + Points(QLess(CallScores.communication, N(30)), 15)
    + Points(QLess(CallScores.initiative, N(20)), 10)
    + Points(QLess(CallScores.responsiveness, N(30)), 10)

\* the number of conditions of the risk score that hold
ClaimedRiskFactors ==
      Points(QLess(CallOverall, N(40)), 1)
    + Points(QLess(Get(result.metrics, "engagement_trend", N(0)), N(-10)), 1)
    + Points(QLess(CallScores.participation, N(30)), 1)
    + Points(QLess(CallScores.communication, N(30)), 1)
    + Points(QLess(CallScores.initiative, N(20)), 1)
    + Points(QLess(CallScores.responsiveness, N(30)), 1)

\* C23: the risk level of a calculate_score result is CRITICAL when the risk
\* score is at least 50, HIGH at least 30, MEDIUM at least 15, else LOW, the
\* risk score being 30 if overall < 40, + 20 if trend < -10, + 15 if
\* participation < 30, + 15 if communication < 30, + 10 if initiative < 20,
\* + 10 if responsiveness < 30; at_risk is true if and only if the level is
\* MEDIUM, HIGH or CRITICAL.
C23_RiskIsPointSystem ==
    Scored =>
        /\ result.out.value.risk_level =
              (CASE ClaimedRiskScore >= 50 -> "CRITICAL"
                 [] ClaimedRiskScore \in 30..49 -> "HIGH"
                 [] ClaimedRiskScore \in 15..29 -> "MEDIUM"
                 [] ClaimedRiskScore < 15 -> "LOW")
        /\ result.out.value.at_risk =
              (result.out.value.risk_level \in {"MEDIUM", "HIGH", "CRITICAL"})
        /\ Len(result.out.value.risk_factors) = ClaimedRiskFactors

\* a declining trend alone: 20 points, MEDIUM, at risk
C23_Witness ==
    /\ Scored
    /\ ClaimedRiskScore = 20
    /\ result.out.value.risk_factors = <<"Declining engagement trend">>
    /\ result.out.value.risk_level = "MEDIUM"
    /\ result.out.value.at_risk

\* the levels in increasing order
LevelRank(level) ==
    CASE level = "VERY_LOW" -> 0
      [] level = "LOW" -> 1
      [] level = "MODERATE" -> 2
      [] level = "HIGH" -> 3
      [] level = "VERY_HIGH" -> 4

\* the band of a reported overall_score (hundredths)
LevelOfReported(overall) ==
    CASE overall >= 8000 -> "VERY_HIGH"
      [] overall \in 6500..7999 -> "HIGH"
      [] overall \in 4500..6499 -> "MODERATE"
      [] overall \in 3000..4499 -> "LOW"
      [] overall < 3000 -> "VERY_LOW"

\* C29: the score_level of a calculate_score result is the band of the
\* overall_score of the same result: at least 80 comes with VERY_HIGH, at
\* least 65 with at least HIGH, at least 45 with at least MODERATE, at least
\* 30 with at least LOW.
C29_LevelIsBandOfReported ==
    Scored =>
        /\ LevelRank(result.out.value.score_level)
              >= LevelRank(LevelOfReported(result.out.value.overall_score))
        /\ result.out.value.score_level = LevelOfReported(result.out.value.overall_score)

-----------------------------------------------------------------------------
(* Claims about segments and store keys, under SpecBench *)

\* the rows of data that match every key/value pair of the segment; a row has
\* no value under a key that is not a column, and so matches no pair of it
RowsMatchingAll(data, segment_by) ==
    SelectSeq(data, LAMBDA row :
        \A i \in DOMAIN segment_by :
            /\ segment_by[i][1] \in DataColumns
            /\ Cell(row, segment_by[i][1]) = segment_by[i][2])

\* C26: the statistics create_benchmark stores are those of the rows that
\* match every key/value pair of the segment, a pair whose key is not a column
\* of the dataset included.
C26_OnlyMatchingRows ==
    result.op = "create_benchmark" /\ result.out.ok =>
        LET rows == RowsMatchingAll(result.data, result.segment_by) IN
        /\ result.out.value.data_points = Len(rows)
        /\ result.out.value.sample_size = Len(MetricValues(rows))

\* C27: compare_to_benchmark reads the benchmark of its own (metric_name,
\* segment) pair only, and the store key of a pair is the same in whichever
\* order the segment's keys are given.
C27_KeyIdentifiesPair ==
    result.op = "compare_to_benchmark" =>
        LET key == get_benchmark_key(result.metric_name, result.segment_by) IN
        /\ result.out.ok =>
              /\ benchmarks[key].metric_name = result.metric_name
              /\ benchmarks[key].segment = SegItems(result.segment_by)
        /\ \A s \in Segments :
              SegItems(s) = SegItems(result.segment_by) =>
                  get_benchmark_key(result.metric_name, s) = key

-----------------------------------------------------------------------------
(* Claim about the calls that read fitted state, under SpecReads *)

BenchmarkReads ==
    {"compare_to_benchmark", "batch_compare", "get_benchmark", "get_all_benchmarks"}

\* C25: compare_to_benchmark, batch_compare, get_benchmark and
\* get_all_benchmarks leave the benchmark store as it was, whether they return
\* or raise; detect leaves the detector's baseline statistics, scaler and model
\* as they were; predict leaves the predictor's scaler and model as they were.
C25_ReadsLeaveFittedState ==
    [][ /\ result'.op \in BenchmarkReads => benchmarks' = benchmarks
        /\ result'.op = "AnomalyDetector.detect" =>
              /\ det'.baseline_stats = det.baseline_stats
              /\ det'.scaler = det.scaler
              /\ det'.model = det.model
        /\ result'.op = "ProductivityPredictor.predict" =>
              /\ pred'.scaler = pred.scaler
              /\ pred'.model = pred.model ]_vars

\* a predict that returns, on a trained predictor, beside a fitted detector
\* and a store of two benchmarks
C25_Witness ==
    /\ result.op = "ProductivityPredictor.predict"
    /\ result.out.ok
    /\ pred.scaler = TrainSet
    /\ det.scaler = TrainSet
    /\ Cardinality(DOMAIN benchmarks) = 2

-----------------------------------------------------------------------------
(* Claim about the predictor's defaults, under SpecFactors *)

\* the entry of the feature vector X for a field
FeatureOf(X, name) == X[CHOOSE i \in DOMAIN FeatureNames : FeatureNames[i] = name]

\* C30: the factor rules of a predict call see, for every key, the value that
\* is in the feature vector: each factor is present exactly when its threshold
\* is crossed by the feature vector's entry, so an absent engagement_score
\* (entry 50) never yields 'Low engagement level'.
C30_FactorsFollowFeatureVector ==
    result.op = "ProductivityPredictor.predict" /\ result.out.ok =>
        LET X == result.out.X
            positive == Range(result.out.value.positive_factors)
            negative == Range(result.out.value.negative_factors)
        IN  /\ "High engagement level" \in positive <=> FeatureOf(X, "engagement_score") > 7000
            /\ "Low engagement level" \in negative <=> FeatureOf(X, "engagement_score") < 4000
            /\ "Positive sentiment" \in positive <=> FeatureOf(X, "sentiment_score") > 50
            /\ "Negative sentiment" \in negative <=> FeatureOf(X, "sentiment_score") < -30
            /\ "Strong collaboration" \in positive <=> FeatureOf(X, "collaboration_score") > 7000
            /\ "Limited collaboration" \in negative <=> FeatureOf(X, "collaboration_score") < 4000
            /\ "High workload" \in negative <=> FeatureOf(X, "active_tasks") > 1000
            /\ "Potential overwork" \in negative <=> FeatureOf(X, "hours_worked") > 5000
            /\ "Improving trend" \in positive <=> FeatureOf(X, "productivity_trend") > 10
            /\ "Declining trend" \in negative <=> FeatureOf(X, "productivity_trend") < -10
            /\ "engagement_score" \notin DOMAIN result.features =>
                  "Low engagement level" \notin negative

=============================================================================
